---- MODULE Spec2Model ----
(***************************************************************************)
(* State-machine model of the inventory server: the check-in handler, the  *)
(* two read handlers, the SQLite store they share (tables laptops and      *)
(* checkins, one write lock, per-connection transactions) and the          *)
(* validation functions of the CheckIn document, the layers main puts in  *)
(* front of the routes (body size limit, per-address rate limiter), and    *)
(* main itself: its settings, its start-up and its shutdown.               *)
(*                                                                         *)
(* Spec      check-in handlers racing on the store                         *)
(* SpecRead  one stream of check-ins, page views and restarts              *)
(* SpecAdmit requests passing the layers of the served application         *)
(* SpecHost  the check-in route up to validation, over hostnames           *)
(* SpecField the check-in route up to validation, over the other fields    *)
(* SpecLost  one stream of check-ins while the store file may be removed   *)
(* SpecMain  main started with any command line, environment and config    *)
(* SpecStop  the served application from start-up to graceful shutdown     *)
(* SpecDebug check-ins and page views with debug mode on and off           *)
(*                                                                         *)
(* Text is modelled as a sequence of characters, each character a string:  *)
(* a printable ASCII character stands for itself, and the tokens QUOTE,    *)
(* APOSTROPHE, BACKSLASH, BACKTICK, NUL, LF, DEL and U+00E9 stand for the  *)
(* characters they name.                                                   *)
(***************************************************************************)
EXTENDS Integers, Sequences, FiniteSets, TLC

\* ------------------------------------------------------------------ text

PrintableAscii ==
  << " ", "!", "QUOTE", "#", "$", "%", "&", "APOSTROPHE", "(", ")", "*", "+",
     ",", "-", ".", "/", "0", "1", "2", "3", "4", "5", "6", "7",
     "8", "9", ":", ";", "<", "=", ">", "?", "@", "A", "B", "C",
     "D", "E", "F", "G", "H", "I", "J", "K", "L", "M", "N", "O",
     "P", "Q", "R", "S", "T", "U", "V", "W", "X", "Y", "Z", "[",
     "BACKSLASH", "]", "^", "_", "BACKTICK", "a", "b", "c", "d", "e", "f", "g",
     "h", "i", "j", "k", "l", "m", "n", "o", "p", "q", "r", "s",
     "t", "u", "v", "w", "x", "y", "z", "{", "|", "}", "~" >>

\* The code point of a character (the byte SQLite's BINARY collation and
\* Rust's char predicates look at).
CharCode ==
  [c \in {PrintableAscii[i] : i \in DOMAIN PrintableAscii} |->
      31 + (CHOOSE i \in DOMAIN PrintableAscii : PrintableAscii[i] = c)]
  @@ ("NUL" :> 0) @@ ("LF" :> 10) @@ ("DEL" :> 127) @@ ("U+00E9" :> 233)

is_ascii(c) == CharCode[c] < 128

is_ascii_control(c) == CharCode[c] < 32 \/ CharCode[c] = 127

is_ascii_digit(c) == CharCode[c] \in 48..57

is_ascii_hexdigit(c) ==
  is_ascii_digit(c) \/ CharCode[c] \in 65..70 \/ CharCode[c] \in 97..102

is_ascii_alphanumeric(c) ==
  is_ascii_digit(c) \/ CharCode[c] \in 65..90 \/ CharCode[c] \in 97..122

AllDigits(s) == \A i \in DOMAIN s : is_ascii_digit(s[i])

AllHexDigits(s) == \A i \in DOMAIN s : is_ascii_hexdigit(s[i])

RECURSIVE NumVal(_)
\* The value of a run of decimal digits.
NumVal(s) ==
  IF s = <<>> THEN 0
  ELSE 10 * NumVal(SubSeq(s, 1, Len(s) - 1)) + (CharCode[s[Len(s)]] - 48)

RECURSIVE Split(_, _)
\* The pieces of s between occurrences of the character sep.
Split(s, sep) ==
  IF \E i \in DOMAIN s : s[i] = sep
  THEN LET i == CHOOSE k \in DOMAIN s :
                  s[k] = sep /\ \A j \in 1..(k - 1) : s[j] # sep
       IN  <<SubSeq(s, 1, i - 1)>> \o Split(SubSeq(s, i + 1, Len(s)), sep)
  ELSE <<s>>

\* a < b as SQLite compares TEXT under the default BINARY collation:
\* byte by byte, a proper prefix sorting first.
TextLess(a, b) ==
  \E i \in 1..(Len(a) + 1) :
     /\ i <= Len(b)
     /\ \A j \in 1..(i - 1) : a[j] = b[j]
     /\ IF i > Len(a) THEN TRUE ELSE CharCode[a[i]] < CharCode[b[i]]

TextLeq(a, b) == a = b \/ TextLess(a, b)

\* ------------------------------------------------- validation (models.rs)

\* std::net::Ipv4Addr::from_str: four decimal octets, one to three digits
\* each, at most 255, no leading zero.
IsIpv4(s) ==
  \E parts \in {Split(s, ".")} :
     /\ Len(parts) = 4
     /\ \A k \in 1..4 :
           /\ Len(parts[k]) \in 1..3
           /\ AllDigits(parts[k])
           /\ (Len(parts[k]) > 1 => parts[k][1] # "0")
           /\ NumVal(parts[k]) <= 255

IsHexGroup(g) == Len(g) \in 1..4 /\ AllHexDigits(g)

\* The number of 16-bit groups a colon-separated run stands for, or -1 when
\* it is not a run of hex groups (the last one possibly a dotted quad, when
\* ipv4Tail allows it).
GroupCount(s, ipv4Tail) ==
  IF s = <<>> THEN 0
  ELSE LET g == Split(s, ":")
           n == Len(g)
       IN  IF \A k \in 1..n : IsHexGroup(g[k]) THEN n
           ELSE IF /\ ipv4Tail
                   /\ \A k \in 1..(n - 1) : IsHexGroup(g[k])
                   /\ IsIpv4(g[n])
                THEN n + 1
                ELSE -1

\* std::net::Ipv6Addr::from_str: eight groups, or fewer around one "::";
\* a dotted quad may stand for the last two groups, never before "::".
IsIpv6(s) ==
  LET dc == {i \in 1..(Len(s) - 1) : s[i] = ":" /\ s[i + 1] = ":"}
  IN  IF dc = {} THEN GroupCount(s, TRUE) = 8
      ELSE IF Cardinality(dc) > 1 THEN FALSE
      ELSE LET i  == CHOOSE k \in dc : TRUE
               hd == GroupCount(SubSeq(s, 1, i - 1), FALSE)
               tl == GroupCount(SubSeq(s, i + 2, Len(s)), TRUE)
           IN  hd >= 0 /\ tl >= 0 /\ hd + tl <= 7

validate_ip_address(ip) == IsIpv4(ip) \/ IsIpv6(ip)

IsLeapYear(y) == (y % 4 = 0 /\ y % 100 # 0) \/ y % 400 = 0

DaysInMonth(y, m) ==
  IF m = 2 THEN (IF IsLeapYear(y) THEN 29 ELSE 28)
  ELSE IF m \in {4, 6, 9, 11} THEN 30 ELSE 31

\* Days from 1970-01-01 to the civil date y-m-d (proleptic Gregorian).
DaysFromCivil(y, m, d) ==
  LET yy  == IF m <= 2 THEN y - 1 ELSE y
      era == yy \div 400
      yoe == yy - era * 400
      mp  == IF m > 2 THEN m - 3 ELSE m + 9
      doy == (153 * mp + 2) \div 5 + d - 1
      doe == yoe * 365 + yoe \div 4 - yoe \div 100 + doy
  IN  era * 146097 + doe - 719468

\* The digits of a fraction of a second, as nanoseconds.
FracNanos(digits) ==
  LET pad == [i \in 1..9 |-> IF i <= Len(digits) THEN digits[i] ELSE "0"]
  IN  NumVal(pad)

\* chrono::DateTime::parse_from_rfc3339: date "T" time, an optional fraction
\* and a zone that is "Z" or a +hh:mm / -hh:mm offset.  The result holds the
\* instant denoted, as <<days since 1970-01-01, second of the day, nanos>>.
ParseRfc3339(ts) ==
  LET n     == Len(ts)
      dig(i) == is_ascii_digit(ts[i])
      num(i, j) == NumVal(SubSeq(ts, i, j))
      shape == /\ n >= 20
               /\ \A i \in {1, 2, 3, 4, 6, 7, 9, 10, 12, 13, 15, 16, 18, 19} : dig(i)
               /\ ts[5] = "-" /\ ts[8] = "-"
               /\ ts[11] \in {"T", "t"}
               /\ ts[14] = ":" /\ ts[17] = ":"
      bad   == [ok |-> FALSE, instant |-> <<0, 0, 0>>]
  IN  IF ~shape THEN bad
      ELSE
      LET hasFrac == ts[20] = "."
          fracEnd == IF hasFrac
                     THEN CHOOSE k \in 20..n :
                             /\ \A i \in 21..k : dig(i)
                             /\ (k = n \/ ~dig(k + 1))
                     ELSE 19
          frac    == SubSeq(ts, 21, fracEnd)
          zone    == SubSeq(ts, fracEnd + 1, n)
          zoneZ   == zone \in {<<"Z">>, <<"z">>}
          zoneOff == /\ Len(zone) = 6
                     /\ zone[1] \in {"+", "-"}
                     /\ \A i \in {2, 3, 5, 6} : is_ascii_digit(zone[i])
                     /\ zone[4] = ":"
                     /\ NumVal(SubSeq(zone, 2, 3)) <= 23
                     /\ NumVal(SubSeq(zone, 5, 6)) <= 59
          y  == num(1, 4)
          mo == num(6, 7)
          d  == num(9, 10)
          h  == num(12, 13)
          mi == num(15, 16)
          s  == num(18, 19)
          fieldsOk == /\ mo \in 1..12
                      /\ d >= 1 /\ d <= DaysInMonth(y, mo)
                      /\ h <= 23 /\ mi <= 59 /\ s <= 59
                      /\ (hasFrac => Len(frac) >= 1)
                      /\ (zoneZ \/ zoneOff)
      IN  IF ~fieldsOk THEN bad
          ELSE
          LET off   == IF zoneZ THEN 0
                       ELSE (IF zone[1] = "-" THEN -1 ELSE 1)
                            * (NumVal(SubSeq(zone, 2, 3)) * 3600
                               + NumVal(SubSeq(zone, 5, 6)) * 60)
              local == h * 3600 + mi * 60 + s - off
              carry == local \div 86400
          IN  [ok |-> TRUE,
               instant |-> <<DaysFromCivil(y, mo, d) + carry,
                             local - carry * 86400,
                             FracNanos(frac)>>]

validate_timestamp(ts) == ParseRfc3339(ts).ok

\* The instant an accepted timestamp denotes.
Instant(ts) == ParseRfc3339(ts).instant

\* Instant a is not later than instant b.
InstantLeq(a, b) ==
  \/ a[1] < b[1]
  \/ a[1] = b[1] /\ a[2] < b[2]
  \/ a[1] = b[1] /\ a[2] = b[2] /\ a[3] <= b[3]

\* validate_printable_ascii_required, were control characters let through.
validate_ascii_only(s) == \A i \in DOMAIN s : is_ascii(s[i])

validate_printable_ascii_required(s) ==
  \A i \in DOMAIN s : is_ascii(s[i]) /\ ~is_ascii_control(s[i])

\* validate_hostname, were only the first character required alphanumeric.
validate_hostname_first_only(hostname) ==
  /\ \A i \in DOMAIN hostname :
        is_ascii_alphanumeric(hostname[i]) \/ hostname[i] \in {"-", "_"}
  /\ hostname # <<>> /\ is_ascii_alphanumeric(hostname[1])

validate_hostname(hostname) ==
  /\ \A i \in DOMAIN hostname :
        is_ascii_alphanumeric(hostname[i]) \/ hostname[i] \in {"-", "_"}
  /\ hostname # <<>> /\ is_ascii_alphanumeric(hostname[1])
  /\ hostname # <<>> /\ is_ascii_alphanumeric(hostname[Len(hostname)])

\* Field length limits of the validate attributes.
HostnameMax == 63
UserMax == 512
SerialMax == 128
DrivesMax == 32
DriveFieldMax == 256

\* Option<String>
None == [some |-> FALSE, val |-> <<>>]
Some(x) == [some |-> TRUE, val |-> x]

\* DriveViolations, were serial_number given no validate attribute.
DriveViolations_serial_unchecked(d) ==
  {f \in {"model"} :
      ~(Len(d.model) \in 1..DriveFieldMax
        /\ validate_printable_ascii_required(d.model))}
  \cup
  {f \in {"device_id"} :
      ~(Len(d.device_id) \in 1..DriveFieldMax
        /\ validate_printable_ascii_required(d.device_id))}

\* The fields of a Drive that violate its validate attributes.
DriveViolations(d) ==
  {f \in {"model"} :
      ~(Len(d.model) \in 1..DriveFieldMax
        /\ validate_printable_ascii_required(d.model))}
  \cup
  {f \in {"serial_number"} :
      d.serial_number.some
      /\ ~(Len(d.serial_number.val) <= DriveFieldMax
           /\ validate_printable_ascii_required(d.serial_number.val))}
  \cup
  {f \in {"device_id"} :
      ~(Len(d.device_id) \in 1..DriveFieldMax
        /\ validate_printable_ascii_required(d.device_id))}

\* CheckIn::validate: the fields of a CheckIn that violate its validate
\* attributes; every field is checked, whatever the others gave.
Violations(p) ==
  {f \in {"hostname"} :
      ~(Len(p.hostname) \in 1..HostnameMax /\ validate_hostname(p.hostname))}
  \cup
  {f \in {"ip_address"} : ~validate_ip_address(p.ip_address)}
  \cup
  {f \in {"logged_in_user"} :
      p.logged_in_user.some
      /\ ~(Len(p.logged_in_user.val) <= UserMax
           /\ validate_printable_ascii_required(p.logged_in_user.val))}
  \cup
  {f \in {"laptop_serial"} :
      ~(Len(p.laptop_serial) \in 1..SerialMax
        /\ validate_printable_ascii_required(p.laptop_serial))}
  \cup
  {f \in {"drives"} :
      ~(Len(p.drives) <= DrivesMax
        /\ \A i \in DOMAIN p.drives : DriveViolations(p.drives[i]) = {})}
  \cup
  {f \in {"timestamp_utc"} : ~validate_timestamp(p.timestamp_utc)}

\* The violations validate reports below the key drives, each the index of
\* a drive entry and a field of it: the entries are validated only when the
\* list passed its own length check, an error map holding one kind of
\* entry for a key.
DriveErrors(p) ==
  IF Len(p.drives) <= DrivesMax
  THEN {<<i, f>> \in (DOMAIN p.drives) \X {"model", "serial_number", "device_id"} :
           f \in DriveViolations(p.drives[i])}
  ELSE {}

\* validate, were its result not looked at.
validate_unchecked(p) == TRUE

validate(p) == Violations(p) = {}

\* ------------------------------------------------------- JSON documents

\* A JSON value: its kind, and the characters of a string or number or the
\* elements of an array.  "absent" stands for a key the object lacks.
JAbsent == [kind |-> "absent", val |-> <<>>]
JNull == [kind |-> "null", val |-> <<>>]
JString(s) == [kind |-> "string", val |-> s]
JNumber(digits) == [kind |-> "number", val |-> digits]
JArray(elems) == [kind |-> "array", val |-> elems]

\* serde's derived Deserialize for a required String field.
IsRequiredString(v) == v.kind = "string"

\* serde's derived Deserialize for an Option<String> field: a missing key
\* and null both give None.
IsOptionalString(v) == v.kind \in {"absent", "null", "string"}

OptionOf(v) == IF v.kind = "string" THEN Some(v.val) ELSE None

\* A JSON object deserializes into a Drive; keys Drive does not name
\* (size_bytes, media_type) are skipped.
IsDrive(o) ==
  /\ IsRequiredString(o.model)
  /\ IsOptionalString(o.serial_number)
  /\ IsRequiredString(o.device_id)

DriveOf(o) ==
  [model |-> o.model.val,
   serial_number |-> OptionOf(o.serial_number),
   device_id |-> o.device_id.val]

\* IsCheckIn, were the String fields given #[serde(default)]: a missing or
\* mistyped one no longer fails the extractor.
IsCheckInDefaulting(doc) ==
  /\ doc.drives.kind = "array"
  /\ \A i \in DOMAIN doc.drives.val : IsDrive(doc.drives.val[i])

\* A JSON object deserializes into a CheckIn.
IsCheckIn(doc) ==
  /\ IsRequiredString(doc.hostname)
  /\ IsRequiredString(doc.ip_address)
  /\ IsOptionalString(doc.logged_in_user)
  /\ IsRequiredString(doc.laptop_serial)
  /\ doc.drives.kind = "array"
  /\ \A i \in DOMAIN doc.drives.val : IsDrive(doc.drives.val[i])
  /\ IsRequiredString(doc.timestamp_utc)

CheckInOf(doc) ==
  [hostname |-> doc.hostname.val,
   ip_address |-> doc.ip_address.val,
   logged_in_user |-> OptionOf(doc.logged_in_user),
   laptop_serial |-> doc.laptop_serial.val,
   drives |-> [i \in DOMAIN doc.drives.val |-> DriveOf(doc.drives.val[i])],
   timestamp_utc |-> doc.timestamp_utc.val]

\* serde_json::to_string(&payload.drives): one object per Drive, its three
\* fields in declaration order, a None serial_number as null.
DrivesToJson(drives) ==
  [i \in DOMAIN drives |->
     [model |-> JString(drives[i].model),
      serial_number |-> IF drives[i].serial_number.some
                        THEN JString(drives[i].serial_number.val)
                        ELSE JNull,
      device_id |-> JString(drives[i].device_id)]]

\* --------------------------------------------------------- store (db.rs)

\* The store file Connection::open creates on a fresh path: no table, no
\* index, the rollback journal; laptops and checkins are the rows of the
\* two tables, seq the AUTOINCREMENT counter of checkins.
NoFile ==
  [tables |-> {}, indexes |-> {}, journal_mode |-> "delete",
   laptops |-> <<>>, checkins |-> <<>>, seq |-> 0]

\* open_and_init, were its batch to drop and create the tables anew.
open_and_init_recreating(file) ==
  [tables |-> {"laptops", "checkins"},
   indexes |-> {"idx_checkins_laptop_serial", "idx_checkins_timestamp"},
   journal_mode |-> "wal",
   laptops |-> <<>>, checkins |-> <<>>, seq |-> 0]

\* open_and_init on the store file as it is: PRAGMA journal_mode = WAL,
\* CREATE TABLE IF NOT EXISTS for both tables, CREATE INDEX IF NOT EXISTS
\* for both indexes; what exists is left as it is.
open_and_init(file) ==
  [file EXCEPT
     !.journal_mode = "wal",
     !.tables = @ \cup {"laptops", "checkins"},
     !.indexes = @ \cup {"idx_checkins_laptop_serial", "idx_checkins_timestamp"}]

\* insert_checkin, were the audit table keyed by serial like laptops: the
\* new row takes the place of the serial's earlier rows.
insert_checkin_replacing(d, p, dj) ==
  LET NotMine(row) == row.laptop_serial # p.laptop_serial
  IN  [d EXCEPT
         !.checkins = Append(SelectSeq(@, NotMine),
                             [id |-> d.seq + 1,
                              laptop_serial |-> p.laptop_serial,
                              hostname |-> p.hostname,
                              ip_address |-> p.ip_address,
                              logged_in_user |-> p.logged_in_user,
                              timestamp_utc |-> p.timestamp_utc,
                              drives_json |-> dj]),
         !.seq = @ + 1]

\* INSERT INTO checkins (...) VALUES (?1 .. ?6)
insert_checkin(d, p, dj) ==
  [d EXCEPT
     !.checkins = Append(@, [id |-> d.seq + 1,
                             laptop_serial |-> p.laptop_serial,
                             hostname |-> p.hostname,
                             ip_address |-> p.ip_address,
                             logged_in_user |-> p.logged_in_user,
                             timestamp_utc |-> p.timestamp_utc,
                             drives_json |-> dj]),
     !.seq = d.seq + 1]

\* upsert_laptop, were ip_address and logged_in_user left out of the
\* DO UPDATE SET list.
upsert_laptop_some_columns(d, p, dj) ==
  LET hit == {i \in DOMAIN d.laptops :
                 d.laptops[i].laptop_serial = p.laptop_serial}
  IN  IF hit = {}
      THEN [d EXCEPT !.laptops = Append(@,
              [laptop_serial |-> p.laptop_serial, hostname |-> p.hostname,
               ip_address |-> p.ip_address, logged_in_user |-> p.logged_in_user,
               last_seen_utc |-> p.timestamp_utc, drives_json |-> dj])]
      ELSE [d EXCEPT !.laptops =
              [i \in DOMAIN @ |->
                 IF i \in hit
                 THEN [@[i] EXCEPT !.hostname = p.hostname,
                                   !.last_seen_utc = p.timestamp_utc,
                                   !.drives_json = dj]
                 ELSE @[i]]]

\* upsert_laptop, were the update applied only when the new timestamp sorts
\* after the stored one.
upsert_laptop_if_newer(d, p, dj) ==
  LET row == [laptop_serial |-> p.laptop_serial, hostname |-> p.hostname,
              ip_address |-> p.ip_address, logged_in_user |-> p.logged_in_user,
              last_seen_utc |-> p.timestamp_utc, drives_json |-> dj]
      hit == {i \in DOMAIN d.laptops :
                 d.laptops[i].laptop_serial = p.laptop_serial}
  IN  IF hit = {}
      THEN [d EXCEPT !.laptops = Append(@, row)]
      ELSE [d EXCEPT !.laptops =
              [i \in DOMAIN @ |->
                 IF i \in hit /\ TextLess(@[i].last_seen_utc, p.timestamp_utc)
                 THEN row ELSE @[i]]]

\* upsert_laptop, were laptop_serial no key of the table: a plain INSERT.
upsert_laptop_plain_insert(d, p, dj) ==
  [d EXCEPT !.laptops = Append(@,
     [laptop_serial |-> p.laptop_serial, hostname |-> p.hostname,
      ip_address |-> p.ip_address, logged_in_user |-> p.logged_in_user,
      last_seen_utc |-> p.timestamp_utc, drives_json |-> dj])]

\* upsert_laptop, were drives_json left out of the DO UPDATE SET list: a
\* known serial keeps the drives document of its first check-in.
upsert_laptop_keeping_drives(d, p, dj) ==
  LET hit == {i \in DOMAIN d.laptops :
                 d.laptops[i].laptop_serial = p.laptop_serial}
  IN  IF hit = {}
      THEN [d EXCEPT !.laptops = Append(@,
             [laptop_serial |-> p.laptop_serial, hostname |-> p.hostname,
              ip_address |-> p.ip_address,
              logged_in_user |-> p.logged_in_user,
              last_seen_utc |-> p.timestamp_utc, drives_json |-> dj])]
      ELSE [d EXCEPT !.laptops =
              [i \in DOMAIN @ |->
                 IF i \in hit
                 THEN [@[i] EXCEPT !.hostname = p.hostname,
                                   !.ip_address = p.ip_address,
                                   !.logged_in_user = p.logged_in_user,
                                   !.last_seen_utc = p.timestamp_utc]
                 ELSE @[i]]]

\* INSERT INTO laptops (...) VALUES (?1 .. ?6)
\* ON CONFLICT(laptop_serial) DO UPDATE SET the five other columns
upsert_laptop(d, p, dj) ==
  LET row == [laptop_serial |-> p.laptop_serial,
              hostname |-> p.hostname,
              ip_address |-> p.ip_address,
              logged_in_user |-> p.logged_in_user,
              last_seen_utc |-> p.timestamp_utc,
              drives_json |-> dj]
      hit == {i \in DOMAIN d.laptops :
                 d.laptops[i].laptop_serial = p.laptop_serial}
  IN  IF hit = {}
      THEN [d EXCEPT !.laptops = Append(@, row)]
      ELSE [d EXCEPT !.laptops =
              [i \in DOMAIN @ |-> IF i \in hit THEN row ELSE @[i]]]

\* The orders in which ORDER BY key DESC may return rows: every arrangement
\* whose keys do not increase, as TEXT; rows with equal keys come in any order.
OrderByDesc(rows, column) ==
  LET n == Len(rows)
      perms == {f \in [1..n -> 1..n] :
                  \A i, j \in 1..n : i # j => f[i] # f[j]}
  IN  {[i \in 1..n |-> rows[f[i]]] : f \in
         {g \in perms :
            \A i \in 1..(n - 1) : TextLeq(rows[g[i + 1]][column], rows[g[i]][column])}}

\* get_all_laptops, were the rows of the first call kept and served again:
\* the store starts empty, and so would every list.
get_all_laptops_cached(d) == {<<>>}

\* SELECT ... FROM laptops ORDER BY last_seen_utc DESC
get_all_laptops(d) == OrderByDesc(d.laptops, "last_seen_utc")

\* get_laptop_by_serial, were absence answered with an empty record in place
\* of None.
get_laptop_by_serial_default(d, serial) ==
  LET hit == {i \in DOMAIN d.laptops : d.laptops[i].laptop_serial = serial}
  IN  IF hit = {}
      THEN [found |-> TRUE,
            rows |-> <<[laptop_serial |-> <<>>, hostname |-> <<>>,
                        ip_address |-> <<>>, logged_in_user |-> None,
                        last_seen_utc |-> <<>>, drives_json |-> <<>>]>>]
      ELSE [found |-> TRUE,
            rows |-> <<d.laptops[CHOOSE i \in hit : \A j \in hit : i <= j]>>]

\* SELECT ... FROM laptops WHERE laptop_serial = ?1, first row or None
get_laptop_by_serial(d, serial) ==
  LET hit == {i \in DOMAIN d.laptops : d.laptops[i].laptop_serial = serial}
  IN  IF hit = {} THEN [found |-> FALSE, rows |-> <<>>]
      ELSE [found |-> TRUE,
            rows |-> <<d.laptops[CHOOSE i \in hit : \A j \in hit : i <= j]>>]

\* get_checkins_by_serial, were the WHERE clause left out.
get_checkins_unfiltered(d, serial) ==
  LET cols == [i \in DOMAIN d.checkins |->
                 [hostname |-> d.checkins[i].hostname,
                  ip_address |-> d.checkins[i].ip_address,
                  logged_in_user |-> d.checkins[i].logged_in_user,
                  timestamp_utc |-> d.checkins[i].timestamp_utc]]
  IN  OrderByDesc(cols, "timestamp_utc")

\* SELECT hostname, ip_address, logged_in_user, timestamp_utc FROM checkins
\* WHERE laptop_serial = ?1 ORDER BY timestamp_utc DESC
get_checkins_by_serial(d, serial) ==
  LET IsSerial(row) == row.laptop_serial = serial
      mine == SelectSeq(d.checkins, IsSerial)
      cols == [i \in DOMAIN mine |->
                 [hostname |-> mine[i].hostname,
                  ip_address |-> mine[i].ip_address,
                  logged_in_user |-> mine[i].logged_in_user,
                  timestamp_utc |-> mine[i].timestamp_utc]]
  IN  OrderByDesc(cols, "timestamp_utc")

\* ----------------------------------------------------------- request bodies

\* A request body: text that is JSON or not, and when it is, the object it
\* holds, key by key.
Body(wellFormed, hostname, ip, user, serial, drives, ts) ==
  [wellFormed |-> wellFormed,
   doc |-> [hostname |-> hostname, ip_address |-> ip, logged_in_user |-> user,
            laptop_serial |-> serial, drives |-> drives, timestamp_utc |-> ts]]

SN001 == JString(<<"S", "N", "0", "0", "1">>)
SN002 == JString(<<"S", "N", "0", "0", "2">>)
HostV1 == JString(<<"h", "o", "s", "t", "-", "v", "1">>)
HostV2 == JString(<<"h", "o", "s", "t", "-", "v", "2">>)
Ip1 == JString(<<"1", "9", "2", ".", "1", "6", "8", ".", "1", ".", "1">>)
Ip2 == JString(<<"1", "9", "2", ".", "1", "6", "8", ".", "1", ".", "2">>)
\* 10:00 UTC, 08:00 UTC, and 10:30 at +05:00, which is 05:30 UTC
Ts10Z == JString(<<"2", "0", "2", "5", "-", "1", "2", "-", "1", "8", "T", "1", "0", ":", "0", "0", ":", "0", "0", "Z">>)
Ts08Z == JString(<<"2", "0", "2", "5", "-", "1", "2", "-", "1", "8", "T", "0", "8", ":", "0", "0", ":", "0", "0", "Z">>)
Ts1030Plus5 == JString(<<"2", "0", "2", "5", "-", "1", "2", "-", "1", "8", "T", "1", "0", ":", "3", "0", ":", "0", "0", "+", "0", "5", ":", "0", "0">>)
Bob == JString(<<"b", "o", "b">>)
NoDrives == JArray(<<>>)
OneDrive ==
  JArray(<<[model |-> JString(<<"W", "D", " ", "B", "l", "u", "e">>),
            serial_number |-> JString(<<"W", "D", "-", "1", "2", "3", "4", "5", "6">>),
            device_id |-> JString(<<"BACKSLASH", "BACKSLASH", ".", "BACKSLASH", "P", "H", "Y", "S", "I", "C", "A", "L", "D", "R", "I", "V", "E", "0">>),
            size_bytes |-> JNumber(<<"5", "0", "0", "1", "0", "7", "8", "6", "2", "0", "1", "6">>),
            media_type |-> JString(<<"S", "S", "D">>)]>>)

\* The bodies clients send: what the tests of the check-in route send, and
\* timestamps that differ in their UTC offset.
Bodies ==
  << \* "{ invalid json }"
     Body(FALSE, JAbsent, JAbsent, JAbsent, JAbsent, JAbsent, JAbsent),
     \* laptop_serial missing
     Body(TRUE, HostV1, Ip1, JNull, JAbsent, NoDrives, Ts10Z),
     \* hostname of the wrong type
     Body(TRUE, JNumber(<<"7">>), Ip1, JNull, SN001, NoDrives, Ts10Z),
     \* hostnames with a leading or trailing underscore, a space, a line feed
     Body(TRUE, JString(<<"_", "I", "N", "V", "A", "L", "I", "D">>), Ip1, JNull, SN001, NoDrives, Ts10Z),
     Body(TRUE, JString(<<"I", "N", "V", "A", "L", "I", "D", "_">>), Ip1, JNull, SN001, NoDrives, Ts10Z),
     Body(TRUE, JString(<<"b", "a", "d", " ", "h", "o", "s", "t">>), Ip1, JNull, SN001, NoDrives, Ts10Z),
     Body(TRUE, JString(<<"h", "LF", "x">>), Ip1, JNull, SN001, NoDrives, Ts10Z),
     \* an IP address that does not parse
     Body(TRUE, HostV1, JString(<<"n", "o", "t", "-", "a", "n", "-", "i", "p", "-", "a", "d", "d", "r", "e", "s", "s">>), JNull, SN001, NoDrives, Ts10Z),
     \* valid check-ins
     Body(TRUE, HostV1, Ip1, JNull, SN001, NoDrives, Ts10Z),
     Body(TRUE, HostV2, Ip2, Bob, SN001, OneDrive, Ts08Z),
     Body(TRUE, HostV2, Ip2, Bob, SN001, NoDrives, Ts1030Plus5),
     Body(TRUE, HostV1, Ip1, JAbsent, SN002, NoDrives, Ts08Z) >>

\* ------------------------------------------------------------- responses

\* A response: its status, the fixed text of its body, and what the handler
\* interpolated into that text: an error's Display text, a text of the request.
Response(status, body) ==
  [status |-> status, body |-> body, error |-> "", echo |-> <<>>]

Ok == Response(200, "")

\* axum's Json extractor: the body is not JSON
JsonSyntaxError == Response(400, "JsonSyntaxError")

\* axum's Json extractor: the JSON is not a CheckIn
JsonDataError == Response(422, "JsonDataError")

\* The texts of the rusqlite errors a statement or an open may fail with.
DbErrors == {"unable to open database file", "database is locked"}

\* The text of the error Connection::open fails with in the check-in handler.
OpenErrors == {"unable to open database file"}

\* The text of the error a statement of a write transaction fails with
\* once the busy timeout passes (SQLITE_BUSY).
WriteErrors == {"database is locked"}

\* CheckInError::ValidationFailed(e), e the violations field by field
ValidationFailed(fields) ==
  [kind |-> "ValidationFailed", detail |-> fields, nested |-> {}]

\* CheckInError::DatabaseError(e)
DatabaseError(e) == [kind |-> "DatabaseError", detail |-> {e}, nested |-> {}]

\* CheckInError::SerializationError(e)
SerializationError(e) ==
  [kind |-> "SerializationError", detail |-> {e}, nested |-> {}]

\* No error: nothing was logged.
NoError == [kind |-> "", detail |-> {}, nested |-> {}]

\* CheckInError::into_response: the error is logged and a fixed text returned.
into_response(e) ==
  CASE e.kind = "ValidationFailed" -> Response(400, "Invalid input data")
    [] e.kind = "DatabaseError" -> Response(500, "Internal server error")
    [] e.kind = "SerializationError" -> Response(500, "Internal server error")

\* ------------------------------------------------------------------ state

\* Check-ins the store may come to hold, committed or in flight.
MaxCheckins == 2

\* Check-in requests the server handles at the same time.
MaxInFlight == 2

Reqs == 1..MaxInFlight

VARIABLES
  db,      \* the committed content of the store file
  writer,  \* the request whose connection holds the write lock, or 0
  tx,      \* per request: the uncommitted content its transaction wrote
  req,     \* per request: where the handler is, and what it holds
  rd,      \* the read request (GET / or GET /device/:serial) in progress
  acks,    \* history: the check-ins answered 200, in the order of the answers
  gate,    \* the layers in front of the routes: the request passing them,
           \* the rate limiter's state, and what each address has sent
  starts,  \* how many times the process was started on the store file
  proc     \* the process: what main was started with, the settings it made
           \* of it, whether it serves, and what it printed

vars == <<db, writer, tx, req, rd, acks, gate, starts, proc>>

NoBody == Body(FALSE, JAbsent, JAbsent, JAbsent, JAbsent, JAbsent, JAbsent)

NoCheckIn ==
  [hostname |-> <<>>, ip_address |-> <<>>, logged_in_user |-> None,
   laptop_serial |-> <<>>, drives |-> <<>>, timestamp_utc |-> <<>>]

NoResponse == Response(0, "")

\* A request slot no request occupies.
Idle ==
  [pc |-> "idle", body |-> NoBody, payload |-> NoCheckIn, drives_json |-> <<>>,
   entered |-> FALSE, opened |-> FALSE, step |-> "", logged |-> NoError,
   response |-> NoResponse]

\* A connection outside a write transaction.
NoTx ==
  [active |-> FALSE, base |-> open_and_init(NoFile),
   work |-> open_and_init(NoFile)]

RdIdle ==
  [pc |-> "idle", route |-> "", serial |-> <<>>, rows |-> <<>>,
   history |-> <<>>, seen |-> 0, response |-> NoResponse]

\* Maximum request body size, in bytes.
MAX_BODY_SIZE == 1024 * 1024

\* Rate limit burst size.
RATE_LIMIT_BURST == 20

\* Times the process is started on one store file.
MaxStarts == 2

\* Requests one address sends in a burst, no time passing between them.
MaxRapid == 21

\* The peer addresses of the clients.
Addrs == {"10.0.0.1", "10.0.0.2"}

\* What the router routes.
Routes == {"/health", "/ready", "/", "/device", "/checkin"}

\* The sizes of the request bodies: none, the largest allowed, one byte more.
BodySizes == {0, MAX_BODY_SIZE, MAX_BODY_SIZE + 1}

\* app.into_make_service(): the service made for a connection from peer
\* does not put ConnectInfo<SocketAddr> into its requests' extensions.
into_make_service(peer) == None

\* No request is passing the layers; every bucket of the limiter is full.
GateInit ==
  [pc |-> "idle", addr |-> "", route |-> "", size |-> 0, declared |-> FALSE,
   body |-> 0, connect_info |-> None, response |-> NoResponse,
   validated |-> FALSE, opened |-> FALSE,
   tokens |-> [a \in Addrs |-> RATE_LIMIT_BURST],
   arrived |-> [a \in Addrs |-> 0],
   admitted |-> [a \in Addrs |-> 0],
   limited |-> [a \in Addrs |-> 0]]

\* ------------------------------------------------ settings (main.rs)

\* str::to_lowercase, on ASCII text.
to_lowercase(s) ==
  [i \in DOMAIN s |->
     IF CharCode[s[i]] \in 65..90 THEN PrintableAscii[CharCode[s[i]] + 1] ELSE s[i]]

\* A port number in decimal.
IsPort(p) == Len(p) \in 1..5 /\ AllDigits(p) /\ NumVal(p) <= 65535

\* str::parse::<SocketAddr> succeeds: address:port, an IPv6 address in
\* brackets.
parse_socket_addr(s) ==
  \/ LET parts == Split(s, ":")
     IN  Len(parts) = 2 /\ IsIpv4(parts[1]) /\ IsPort(parts[2])
  \/ /\ s # <<>> /\ s[1] = "["
     /\ \E k \in DOMAIN s :
           /\ s[k] = "]" /\ k < Len(s) /\ s[k + 1] = ":"
           /\ IsIpv6(SubSeq(s, 2, k - 1))
           /\ IsPort(SubSeq(s, k + 2, Len(s)))

default_bind == <<"0", ".", "0", ".", "0", ".", "0", ":", "8", "4", "4", "3">>

\* config::default_db_path: inventory.db next to the executable
default_db_path == <<"i", "n", "v", "e", "n", "t", "o", "r", "y", ".", "d", "b">>

\* Config::default(), which load_config returns when there is no file
ConfigDefault ==
  [bind |-> default_bind, db_path |-> None, tls_cert |-> None,
   tls_key |-> None, debug |-> FALSE]

\* The command line without --debug.
NoArgs == [debug |-> FALSE]

\* An environment with none of the INVENTORY_ variables set.
NoEnv ==
  [INVENTORY_BIND |-> None, INVENTORY_DB_PATH |-> None, INVENTORY_DEBUG |-> None,
   INVENTORY_TLS_CERT |-> None, INVENTORY_TLS_KEY |-> None]

\* The command lines, environments and config files the server is started
\* with.
ArgsSet == {[debug |-> b] : b \in BOOLEAN}

EnvDebugValues ==
  {None, Some(<<"1">>), Some(<<"t", "r", "u", "e">>), Some(<<"T", "R", "U", "E">>),
   Some(<<"f", "a", "l", "s", "e">>), Some(<<"0">>), Some(<<>>)}

Envs ==
  {[INVENTORY_BIND |-> b, INVENTORY_DB_PATH |-> p, INVENTORY_DEBUG |-> d,
    INVENTORY_TLS_CERT |-> t[1], INVENTORY_TLS_KEY |-> t[2]] :
      b \in {None,
             Some(<<"1", "2", "7", ".", "0", ".", "0", ".", "1", ":", "9", "0", "0", "0">>),
             Some(<<"n", "o", "n", "s", "e", "n", "s", "e">>)},
      p \in {None, Some(<<"/", "t", "m", "p", "/", "t", "e", "s", "t", ".", "d", "b">>)},
      d \in EnvDebugValues,
      t \in {<<None, None>>,
             <<Some(<<"e", ".", "p", "e", "m">>), Some(<<"e", ".", "k", "e", "y">>)>>}}

Configs ==
  {[bind |-> b, db_path |-> p, tls_cert |-> t[1], tls_key |-> t[2], debug |-> d] :
      b \in {default_bind, <<"[", ":", ":", "1", "]", ":", "8", "4", "4", "3">>},
      p \in {None, Some(<<"/", "v", "a", "r", "/", "l", "i", "b", "/", "i", "n", "v", "e", "n", "t", "o", "r", "y", ".", "d", "b">>)},
      t \in {<<None, None>>,
             <<Some(<<"c", "e", "r", "t", ".", "p", "e", "m">>), Some(<<"k", "e", "y", ".", "p", "e", "m">>)>>,
             <<Some(<<"c", "e", "r", "t", ".", "p", "e", "m">>), None>>},
      d \in BOOLEAN}

\* The process before main has run.
Off ==
  [phase |-> "off", args |-> NoArgs, env |-> NoEnv, cfg |-> ConfigDefault,
   bind_addr |-> <<>>, tls |-> FALSE,
   state |-> [db_path |-> <<>>, debug_mode |-> FALSE], console |-> {},
   debug_query |-> "", signal |-> "", elapsed |-> 0]

\* main's settings: bind_addr, db_path and debug_mode from the command
\* line, the environment and the config file, and whether TLS is served.
Settings(args, env, cfg) ==
  [phase |-> "serving", args |-> args, env |-> env, cfg |-> cfg,
   bind_addr |-> IF env.INVENTORY_BIND.some
                 THEN env.INVENTORY_BIND.val ELSE cfg.bind,
   tls |-> LET cert_path == IF env.INVENTORY_TLS_CERT.some
                            THEN env.INVENTORY_TLS_CERT.val
                            ELSE IF cfg.tls_cert.some THEN cfg.tls_cert.val
                            ELSE <<>>
               key_path == IF env.INVENTORY_TLS_KEY.some
                           THEN env.INVENTORY_TLS_KEY.val
                           ELSE IF cfg.tls_key.some THEN cfg.tls_key.val
                           ELSE <<>>
           IN  cert_path # <<>> /\ key_path # <<>>,
   state |->
     [db_path |-> IF env.INVENTORY_DB_PATH.some THEN env.INVENTORY_DB_PATH.val
                  ELSE IF cfg.db_path.some THEN cfg.db_path.val
                  ELSE default_db_path,
      debug_mode |->
         \/ args.debug
         \/ /\ env.INVENTORY_DEBUG.some
            /\ \/ env.INVENTORY_DEBUG.val = <<"1">>
               \/ to_lowercase(env.INVENTORY_DEBUG.val) = <<"t", "r", "u", "e">>
         \/ cfg.debug],
   console |-> {}, debug_query |-> "", signal |-> "", elapsed |-> 0]

\* What main prints before it serves.
Banner(s) ==
  {"Starting inventory-server", "Database path"}
  \cup {l \in {"[DEBUG] Debug mode enabled"} : s.state.debug_mode}

\* main, from the command line to the served router: it returns an error
\* when the bind address does not parse, when the store cannot be
\* initialized or when the certificate and key cannot be loaded.
main(args, env, cfg) ==
  /\ proc.phase = "off"
  /\ LET s == Settings(args, env, cfg)
     IN  IF ~parse_socket_addr(s.bind_addr)
         THEN /\ proc' = [s EXCEPT !.phase = "failed"]
              /\ db' = db
         ELSE \E outcome \in {"serving", "open_and_init failed"}
                             \cup {o \in {"load tls failed"} : s.tls} :
                 /\ proc' = [s EXCEPT
                       !.phase = IF outcome = "serving" THEN "serving" ELSE "failed",
                       !.console = Banner(s)]
                 /\ db' = IF outcome = "open_and_init failed"
                          THEN db ELSE open_and_init(db)
  /\ UNCHANGED <<writer, tx, req, rd, acks, gate, starts>>

\* main, started without arguments, environment or config file: the schema
\* is initialized before the router serves.
Init ==
  /\ db = open_and_init(NoFile)
  /\ writer = 0
  /\ tx = [r \in Reqs |-> NoTx]
  /\ req = [r \in Reqs |-> Idle]
  /\ rd = RdIdle
  /\ acks = <<>>
  /\ gate = GateInit
  /\ starts = 1
  /\ proc = [Settings(NoArgs, NoEnv, ConfigDefault) EXCEPT
               !.console = Banner(Settings(NoArgs, NoEnv, ConfigDefault))]

InFlight == Cardinality({r \in Reqs : req[r].pc \notin {"idle", "done"}})

\* Rollback, were the statements not scoped in one transaction: what was
\* executed before the failure stays.
RollbackKeepsPartial(d, t) == IF t.active THEN t.work ELSE d

\* What the store holds once a transaction is dropped without commit: the
\* statements it executed are rolled back.
Rollback(d, t) == d

\* Committed, were the commit to report success without applying the writes.
CommittedNothing(d, t) == d

\* What the store holds once tx.commit() returned Ok: what the transaction
\* wrote on top of the content it started from.
Committed(d, t) == t.work

\* The handler of request r returns Err(e): the connection and its
\* transaction are dropped.
Abort(r, e) ==
  /\ db' = Rollback(db, tx[r])
  /\ writer' = IF writer = r THEN 0 ELSE writer
  /\ tx' = [tx EXCEPT ![r] = NoTx]
  /\ req' = [req EXCEPT ![r].pc = "done", ![r].step = req[r].pc,
                        ![r].logged = e,
                        ![r].response = into_response(e)]
  /\ UNCHANGED <<rd, acks, gate, starts, proc>>

\* ------------------------------------------------- POST /checkin (handlers.rs)

\* A POST /checkin with body b reaches the router, on a connection the
\* server accepted.
Receive(r, b) ==
  /\ proc.phase = "serving"
  /\ req[r].pc = "idle"
  /\ Len(db.checkins) + InFlight < MaxCheckins
  /\ req' = [req EXCEPT ![r] = [Idle EXCEPT !.pc = "received", !.body = b]]
  /\ UNCHANGED <<db, writer, tx, rd, acks, gate, starts, proc>>

\* Json<CheckIn>: the extractor runs before the handler body.
Extract(r) ==
  /\ req[r].pc = "received"
  /\ req' = [req EXCEPT ![r] =
       IF ~req[r].body.wellFormed
       THEN [@ EXCEPT !.pc = "done", !.step = "received",
                      !.response = JsonSyntaxError]
       ELSE IF ~IsCheckIn(req[r].body.doc)
       THEN [@ EXCEPT !.pc = "done", !.step = "received",
                      !.response = JsonDataError]
       ELSE [@ EXCEPT !.pc = "validating",
                      !.payload = CheckInOf(req[r].body.doc)]]
  /\ UNCHANGED <<db, writer, tx, rd, acks, gate, starts, proc>>

\* What checkin prints for a payload that passed validation: nothing unless
\* state.debug_mode is set.
checkin_debug(debug_mode) ==
  IF debug_mode
  THEN {"[DEBUG] Checkin received", "[DEBUG] Drives"}
  ELSE {}

\* payload.validate()?, then serde_json::to_string(&payload.drives)?, as
\* they act on the request and the store when state.debug_mode is debug_mode.
ValidateIn(debug_mode, r) ==
  /\ req[r].pc = "validating"
  /\ IF validate(req[r].payload)
     THEN /\ req' = [req EXCEPT ![r].pc = "open", ![r].entered = TRUE,
                                ![r].drives_json = DrivesToJson(req[r].payload.drives)]
          /\ UNCHANGED <<db, writer, tx, rd, acks, gate, starts>>
     ELSE /\ db' = Rollback(db, tx[r])
          /\ req' = [req EXCEPT ![r].pc = "done", ![r].entered = TRUE,
                                ![r].step = "validating",
                                ![r].logged =
                                  [ValidationFailed(Violations(req[r].payload))
                                     EXCEPT !.nested = DriveErrors(req[r].payload)],
                                ![r].response = into_response(
                                  ValidationFailed(Violations(req[r].payload)))]
          /\ UNCHANGED <<writer, tx, rd, acks, gate, starts>>

\* payload.validate()?, the debug block, and
\* serde_json::to_string(&payload.drives)?
Validate(r) ==
  /\ ValidateIn(proc.state.debug_mode, r)
  /\ proc' = IF validate(req[r].payload)
             THEN [proc EXCEPT
                     !.console = @ \cup checkin_debug(proc.state.debug_mode)]
             ELSE proc

\* rusqlite::Connection::open(&state.db_path), the PRAGMA batch and
\* conn.transaction(): the connection is set up (the file created when the
\* path holds none), the journal mode set, and BEGIN DEFERRED issued, which
\* takes no lock yet; any of the three may fail.  No CREATE TABLE is run.
OpenConnection(r) ==
  /\ req[r].pc = "open"
  /\ \/ /\ req' = [req EXCEPT ![r].pc = "insert", ![r].opened = TRUE]
        /\ db' = [db EXCEPT !.journal_mode = "wal"]
        /\ UNCHANGED <<writer, tx, rd, acks, gate, starts, proc>>
     \/ \E e \in OpenErrors :
          /\ db' = Rollback(db, tx[r])
          /\ req' = [req EXCEPT ![r].pc = "done", ![r].opened = TRUE,
                                ![r].step = "open",
                                ![r].logged = DatabaseError(e),
                                ![r].response = into_response(DatabaseError(e))]
          /\ UNCHANGED <<writer, tx, rd, acks, gate, starts, proc>>

\* tx.execute(INSERT INTO checkins ...): the first write of the transaction
\* takes the write lock of the store; it fails (SQLITE_BUSY once the busy
\* timeout passes, or any other error) or waits while another connection
\* holds the lock; on a store without the table the statement cannot be
\* prepared.
InsertCheckin(r) ==
  /\ req[r].pc = "insert"
  /\ \/ /\ writer = 0
        /\ "checkins" \in db.tables
        /\ writer' = r
        /\ tx' = [tx EXCEPT ![r] =
             [active |-> TRUE, base |-> db,
              work |-> insert_checkin(db, req[r].payload, req[r].drives_json)]]
        /\ req' = [req EXCEPT ![r].pc = "upsert"]
        /\ UNCHANGED <<db, rd, acks, gate, starts, proc>>
     \/ \E e \in (IF "checkins" \in db.tables
                 THEN WriteErrors
                 ELSE {"no such table: checkins"}) :
          Abort(r, DatabaseError(e))

\* tx.execute(INSERT INTO laptops ... ON CONFLICT ... DO UPDATE ...)
UpsertLaptop(r) ==
  /\ req[r].pc = "upsert"
  /\ \/ /\ tx' = [tx EXCEPT ![r].work =
             upsert_laptop(@, req[r].payload, req[r].drives_json)]
        /\ req' = [req EXCEPT ![r].pc = "commit"]
        /\ UNCHANGED <<db, writer, rd, acks, gate, starts, proc>>
     \/ \E e \in WriteErrors : Abort(r, DatabaseError(e))

\* tx.commit()?; Ok(StatusCode::OK)
Commit(r) ==
  /\ req[r].pc = "commit"
  /\ \/ /\ db' = Committed(db, tx[r])
        /\ writer' = 0
        /\ tx' = [tx EXCEPT ![r] = NoTx]
        /\ req' = [req EXCEPT ![r].pc = "done", ![r].step = "commit",
                              ![r].response = Ok]
        /\ acks' = Append(acks, [checkin |-> req[r].payload,
                                 drives_json |-> req[r].drives_json])
        /\ UNCHANGED <<rd, gate, starts, proc>>
     \/ \E e \in WriteErrors : Abort(r, DatabaseError(e))

\* Finish, were a check-in that failed with a storage error put back in
\* line and tried again.
FinishRetrying(r) ==
  /\ req[r].pc = "done"
  /\ req' = [req EXCEPT ![r] =
       IF req[r].response.status = 500
       THEN [@ EXCEPT !.pc = "open", !.step = "", !.logged = NoError,
                      !.response = NoResponse]
       ELSE Idle]
  /\ UNCHANGED <<db, writer, tx, rd, acks, gate, starts, proc>>

\* The response is written, on a connection still open, and the request's
\* task ends.
Finish(r) ==
  /\ proc.phase # "expired"
  /\ req[r].pc = "done"
  /\ req' = [req EXCEPT ![r] = Idle]
  /\ UNCHANGED <<db, writer, tx, rd, acks, gate, starts, proc>>

\* The steps of the check-in request in slot r, its body one of pool.
Checkin(r, pool) ==
  \/ \E i \in pool : Receive(r, Bodies[i])
  \/ Extract(r)
  \/ Validate(r)
  \/ OpenConnection(r)
  \/ InsertCheckin(r)
  \/ UpsertLaptop(r)
  \/ Commit(r)
  \/ Finish(r)

\* ------------------------------------------------ GET routes (handlers.rs)

\* The serials GET /device/:serial is asked for.
Serials == {SN001.val, SN002.val}

\* (StatusCode, String) of the read handlers: format!("db open: {e}") and
\* the like, the error's text being part of the body.
ReadError(what, e) ==
  [status |-> 500, body |-> what, error |-> e, echo |-> <<>>]

\* (StatusCode::NOT_FOUND, format!("Device not found: {serial}"))
NotFound(serial) ==
  [status |-> 404, body |-> "Device not found: ", error |-> "", echo |-> serial]

\* A GET / or a GET /device/:serial reaches the router.
ReadReceive(route, serial) ==
  /\ proc.phase = "serving"
  /\ rd.pc = "idle"
  /\ rd' = [RdIdle EXCEPT !.pc = "open", !.route = route, !.serial = serial]
  /\ UNCHANGED <<db, writer, tx, req, acks, gate, starts, proc>>

\* What device_detail prints when it is called: nothing unless
\* state.debug_mode is set.
device_detail_called(debug_mode) ==
  IF debug_mode
  THEN {"[DEBUG] device_detail called with serial", "[DEBUG] db_path"}
  ELSE {}

\* rusqlite::Connection::open(&state.db_path), of index and device_detail,
\* as it acts on the request when state.debug_mode is debug_mode.
ReadOpenIn(debug_mode) ==
  /\ rd.pc = "open"
  /\ \/ rd' = [rd EXCEPT !.pc = IF rd.route = "/" THEN "all" ELSE "debug"]
     \/ \E e \in DbErrors :
          rd' = [rd EXCEPT !.pc = "done",
                          !.response = ReadError("db open: ", e)]
  /\ UNCHANGED <<db, writer, tx, req, acks, gate, starts>>

\* The first lines of device_detail, and the connection index and
\* device_detail open.
ReadOpen ==
  /\ ReadOpenIn(proc.state.debug_mode)
  /\ proc' = IF rd.route = "/device"
             THEN [proc EXCEPT
                     !.console = @ \cup device_detail_called(proc.state.debug_mode)]
             ELSE proc

\* How the query of the debug block may go: it is not run unless
\* state.debug_mode is set, and then it succeeds or fails.
DebugQueries(debug_mode) ==
  IF debug_mode THEN {"ok", "failed"} ELSE {"not run"}

\* What the debug block of device_detail prints: the serials, when its
\* query succeeded.
device_detail_debug(query) ==
  IF query = "ok" THEN {"[DEBUG] All laptops in DB"} ELSE {}

\* The debug block, were the failure of its query returned with ?, as the
\* failures of the other queries are.
DetailDebugStrict(debug_mode, query) ==
  /\ rd.pc = "debug"
  /\ rd' = IF query = "failed"
           THEN [rd EXCEPT !.pc = "done",
                           !.response = ReadError("query laptops: ", "failed")]
           ELSE [rd EXCEPT !.pc = "laptop"]
  /\ UNCHANGED <<db, writer, tx, req, acks, gate, starts>>

\* device_detail: if state.debug_mode { if let Ok(laptops) =
\* db::get_all_laptops(&conn) { ... } }, as it acts on the request when
\* state.debug_mode is debug_mode and the query went as query: the handler
\* goes on to fetch the laptop either way.
DetailDebugIn(debug_mode, query) ==
  /\ rd.pc = "debug"
  /\ rd' = [rd EXCEPT !.pc = "laptop"]
  /\ UNCHANGED <<db, writer, tx, req, acks, gate, starts>>

\* device_detail: the debug block
DetailDebug ==
  \E query \in DebugQueries(proc.state.debug_mode) :
    /\ DetailDebugIn(proc.state.debug_mode, query)
    /\ proc' = [proc EXCEPT !.console = @ \cup device_detail_debug(query),
                            !.debug_query =
                              IF query = "not run" THEN @ ELSE query]

\* index: db::get_all_laptops(&conn), then the rows as IndexTemplate
index ==
  /\ rd.pc = "all"
  /\ \/ \E rows \in get_all_laptops(db) :
          rd' = [rd EXCEPT !.pc = "done", !.rows = rows, !.response = Ok]
     \/ \E e \in DbErrors :
          rd' = [rd EXCEPT !.pc = "done",
                          !.response = ReadError("query laptops: ", e)]
  /\ UNCHANGED <<db, writer, tx, req, acks, gate, starts, proc>>

\* device_detail: db::get_laptop_by_serial(&conn, &serial)
DetailLaptop ==
  /\ rd.pc = "laptop"
  /\ \/ LET got == get_laptop_by_serial(db, rd.serial)
        IN  rd' = IF got.found
                  THEN [rd EXCEPT !.pc = "history", !.rows = got.rows,
                                  !.seen = db.seq]
                  ELSE [rd EXCEPT !.pc = "done",
                                  !.response = NotFound(rd.serial)]
     \/ \E e \in DbErrors :
          rd' = [rd EXCEPT !.pc = "done",
                          !.response = ReadError("query laptop: ", e)]
  /\ UNCHANGED <<db, writer, tx, req, acks, gate, starts, proc>>

\* device_detail: db::get_checkins_by_serial(&conn, &serial), then the
\* laptop and its history as DeviceTemplate
DetailHistory ==
  /\ rd.pc = "history"
  /\ \/ \E rows \in get_checkins_by_serial(db, rd.serial) :
          rd' = [rd EXCEPT !.pc = "done", !.history = rows, !.response = Ok]
     \/ \E e \in DbErrors :
          rd' = [rd EXCEPT !.pc = "done",
                          !.response = ReadError("query checkins: ", e)]
  /\ UNCHANGED <<db, writer, tx, req, acks, gate, starts, proc>>

\* The page is written and the request's task ends.
ReadFinish ==
  /\ rd.pc = "done"
  /\ rd' = RdIdle
  /\ UNCHANGED <<db, writer, tx, req, acks, gate, starts, proc>>

ReadNext ==
  \/ ReadReceive("/", <<>>)
  \/ \E serial \in Serials : ReadReceive("/device", serial)
  \/ ReadOpen
  \/ index
  \/ DetailDebug
  \/ DetailLaptop
  \/ DetailHistory
  \/ ReadFinish

\* The bodies sent while handlers race: a rejected one, two check-ins of
\* one serial that differ in every other field, the second with the older
\* timestamp, and a check-in of another serial.
RacingBodies == {4, 9, 10, 12}

\* The server under check-in traffic: MaxInFlight handlers run at once.
Next == \E r \in Reqs : Checkin(r, RacingBodies)

Spec == Init /\ [][Next]_vars

\* The process is stopped with no request in progress and started again:
\* main runs db::open_and_init on the store file before it serves.
Restart ==
  /\ starts < MaxStarts
  /\ \A r \in Reqs : req[r].pc = "idle"
  /\ rd.pc = "idle"
  /\ db' = open_and_init(db)
  /\ starts' = starts + 1
  /\ UNCHANGED <<writer, tx, req, rd, acks, gate, proc>>

\* The server under page views and one stream of check-ins, and restarts.
NextRead == Checkin(1, DOMAIN Bodies) \/ ReadNext \/ Restart

SpecRead == Init /\ [][NextRead]_vars

\* ------------------------------------------ the layers of the router (main.rs)

\* handlers::health and handlers::ready: the probes answer 200.
health == Ok

ready == Ok

\* The bodies POSTed through the layers: a rejected one and a valid one.
GateBodies == {4, 9}

\* A request from address a arrives on a connection the server accepted:
\* its route, the size of its body and whether a Content-Length header
\* declares that size (a chunked body declares none).
Accept(a, route, size, declared, b) ==
  /\ proc.phase = "serving"
  /\ gate.pc = "idle"
  /\ gate.arrived[a] < MaxRapid
  /\ gate' = [gate EXCEPT !.pc = "body_limit", !.addr = a, !.route = route,
                          !.size = size, !.declared = declared, !.body = b,
                          !.connect_info = into_make_service(a),
                          !.response = NoResponse,
                          !.validated = FALSE, !.opened = FALSE]
  /\ UNCHANGED <<db, writer, tx, req, rd, acks, starts, proc>>

\* RequestBodyLimitLayer::new(MAX_BODY_SIZE): a declared length over the
\* limit is answered 413 at once; otherwise the body is passed on wrapped
\* in a reader that fails once more than the limit has been read.
BodyLimit ==
  /\ gate.pc = "body_limit"
  /\ gate' = IF gate.declared /\ gate.size > MAX_BODY_SIZE
             THEN [gate EXCEPT !.pc = "done",
                               !.response = Response(413, "length limit exceeded")]
             ELSE [gate EXCEPT !.pc = "governor"]
  /\ UNCHANGED <<db, writer, tx, req, rd, acks, starts, proc>>

\* PeerIpKeyExtractor, the key extractor of GovernorConfigBuilder::default():
\* the address in the request's ConnectInfo extension.
PeerIpKey(g) == g.connect_info

\* What the routes answer to an admitted request g, and what the store
\* holds afterwards: the handler run to its end on store d.
Served(g, d) ==
  LET b == Bodies[g.body]
      p == CheckInOf(b.doc)
      dj == DrivesToJson(p.drives)
      untouched(r) == [response |-> r, db |-> d,
                       validated |-> FALSE, opened |-> FALSE]
  IN  CASE g.route = "/health" -> untouched(health)
        [] g.route = "/ready" -> untouched(ready)
        [] g.route = "/" -> [untouched(Ok) EXCEPT !.opened = TRUE]
        [] g.route = "/device" ->
             [untouched(IF get_laptop_by_serial(d, SN001.val).found
                        THEN Ok ELSE NotFound(SN001.val))
                EXCEPT !.opened = TRUE]
        [] g.route = "/checkin" ->
             IF g.size > MAX_BODY_SIZE
             THEN untouched(Response(413, "length limit exceeded"))
             ELSE IF ~b.wellFormed THEN untouched(JsonSyntaxError)
             ELSE IF ~IsCheckIn(b.doc) THEN untouched(JsonDataError)
             ELSE IF ~validate(p)
             THEN [untouched(into_response(ValidationFailed(Violations(p))))
                     EXCEPT !.validated = TRUE]
             ELSE [response |-> Ok,
                   db |-> upsert_laptop(insert_checkin(d, p, dj), p, dj),
                   validated |-> TRUE, opened |-> TRUE]

\* GovernorLayer: the request's key is extracted, a failure to extract it
\* is answered 500; the key's bucket is asked for one token, none left is
\* answered 429; otherwise the token is taken and the routes are called.
Governor ==
  /\ gate.pc = "governor"
  /\ LET a == gate.addr
         key == PeerIpKey(gate)
         here == [gate EXCEPT !.pc = "done", !.arrived[a] = @ + 1]
         out == Served(gate, db)
     IN  IF ~key.some
         THEN /\ gate' = [here EXCEPT
                            !.response = Response(500, "Unable To Extract Key!")]
              /\ db' = db
         ELSE IF gate.tokens[key.val] = 0
         THEN /\ gate' = [here EXCEPT
                            !.response = Response(429, "Too Many Requests!"),
                            !.limited[a] = @ + 1]
              /\ db' = db
         ELSE /\ gate' = [here EXCEPT !.tokens[key.val] = @ - 1,
                                      !.admitted[a] = @ + 1,
                                      !.response = out.response,
                                      !.validated = out.validated,
                                      !.opened = out.opened]
              /\ db' = out.db
  /\ UNCHANGED <<writer, tx, req, rd, acks, starts, proc>>

\* The response is written; the connection is ready for the next request.
Respond ==
  /\ gate.pc = "done"
  /\ gate' = [gate EXCEPT !.pc = "idle"]
  /\ UNCHANGED <<db, writer, tx, req, rd, acks, starts, proc>>

\* The served application: every request passes the layers, outermost first.
NextAdmit ==
  \/ \E a \in Addrs, size \in BodySizes, declared \in BOOLEAN :
        \/ \E route \in Routes \ {"/checkin"} : Accept(a, route, size, declared, 0)
        \/ \E b \in GateBodies : Accept(a, "/checkin", size, declared, b)
  \/ BodyLimit
  \/ Governor
  \/ Respond

SpecAdmit == Init /\ [][NextAdmit]_vars

\* ------------------------------------------------ hostnames (models.rs)

\* The longest hostname enumerated character by character.
MaxHostLen == 3

\* The characters hostnames are enumerated over: a letter of each case, a
\* digit, the two separators, and characters the rule excludes.
HostChars == {"a", "Z", "0", "-", "_", "@", " ", "U+00E9"}

\* The hostnames of the tests of models.rs.
WinDesktop01 == <<"W", "I", "N", "_", "D", "E", "S", "K", "T", "O", "P", "-", "0", "1">>
UnderscoreInvalid == <<"_", "I", "N", "V", "A", "L", "I", "D">>
InvalidUnderscore == <<"I", "N", "V", "A", "L", "I", "D", "_">>
HostAtName == <<"H", "O", "S", "T", "@", "N", "A", "M", "E">>

\* The hostnames clients send: every text of up to MaxHostLen characters,
\* the hostnames of the tests, and texts at and over the length limit.
Hostnames ==
  UNION {[1..n -> HostChars] : n \in 0..MaxHostLen}
  \cup {WinDesktop01, UnderscoreInvalid, InvalidUnderscore, HostAtName}
  \cup {[i \in 1..n |-> "a"] : n \in {HostnameMax, HostnameMax + 1}}
  \cup {[i \in 1..HostnameMax |-> IF i = HostnameMax THEN "-" ELSE "a"]}

\* A check-in valid in every field but, perhaps, its hostname.
HostBody(h) == Body(TRUE, JString(h), Ip1, JNull, SN001, NoDrives, Ts10Z)

\* The check-in route up to validation, under check-ins of every hostname.
NextHost ==
  \/ \E h \in Hostnames : Receive(1, HostBody(h))
  \/ Extract(1)
  \/ Validate(1)
  \/ Finish(1)

SpecHost == Init /\ [][NextHost]_vars

\* ------------------------------------------ the store file (handlers.rs)

\* The file at db_path is removed while the server runs and no request is
\* in progress: the next Connection::open creates an empty file there.
StoreRemoved ==
  /\ \A r \in Reqs : req[r].pc = "idle"
  /\ rd.pc = "idle"
  /\ db.tables # {}
  /\ db' = NoFile
  /\ UNCHANGED <<writer, tx, req, rd, acks, gate, starts, proc>>

\* The check-in route, one request at a time, over a store file that may
\* be removed between requests.
NextLost == Checkin(1, DOMAIN Bodies) \/ StoreRemoved

SpecLost == Init /\ [][NextLost]_vars

\* ------------------------------------------------- start-up (main.rs)

\* Before main runs: no store file, no request.
InitMain ==
  /\ db = NoFile
  /\ writer = 0
  /\ tx = [r \in Reqs |-> NoTx]
  /\ req = [r \in Reqs |-> Idle]
  /\ rd = RdIdle
  /\ acks = <<>>
  /\ gate = GateInit
  /\ starts = 1
  /\ proc = Off

\* The server started with any command line, environment and config file.
NextMain == \E args \in ArgsSet, env \in Envs, cfg \in Configs : main(args, env, cfg)

SpecMain == InitMain /\ [][NextMain]_vars

\* -------------------------------------------------- shutdown (main.rs)

\* The grace period handed to graceful_shutdown, in seconds.
GracePeriod == 30

\* A config file that names a certificate and a key: the TLS path of main.
ConfigTls ==
  [ConfigDefault EXCEPT !.tls_cert = Some(<<"c", "e", "r", "t", ".", "p", "e", "m">>),
                        !.tls_key = Some(<<"k", "e", "y", ".", "p", "e", "m">>)]

\* The requests on a connection of the server.
Connected == {r \in Reqs : req[r].pc # "idle"}

\* shutdown_signal returns on Ctrl+C or SIGTERM, and the task that awaited
\* it calls graceful_shutdown(Some(30 s)): the listener is closed.
shutdown_signal(sig) ==
  /\ proc.phase = "serving"
  /\ proc' = [proc EXCEPT !.phase = "draining", !.signal = sig, !.elapsed = 0]
  /\ UNCHANGED <<db, writer, tx, req, rd, acks, gate, starts>>

\* The seconds between two looks at the clock.
TickSeconds == 10

\* Time passes while the grace period runs and connections are open.
Tick ==
  /\ proc.phase = "draining"
  /\ Connected # {}
  /\ proc.elapsed < GracePeriod
  /\ proc' = [proc EXCEPT !.elapsed = IF @ + TickSeconds < GracePeriod
                                       THEN @ + TickSeconds ELSE GracePeriod]
  /\ UNCHANGED <<db, writer, tx, req, rd, acks, gate, starts>>

\* The grace period is over with connections still open: they are shut.
Expire ==
  /\ proc.phase = "draining"
  /\ Connected # {}
  /\ proc.elapsed = GracePeriod
  /\ proc' = [proc EXCEPT !.phase = "expired"]
  /\ UNCHANGED <<db, writer, tx, req, rd, acks, gate, starts>>

\* The connection of request r is shut: its task is dropped where it
\* awaits, the body still arriving or the response not yet written; a
\* handler past the extractor runs without awaiting, up to its response.
ForceClose(r) ==
  /\ proc.phase = "expired"
  /\ req[r].pc \in {"received", "done"}
  /\ req' = [req EXCEPT ![r] = Idle]
  /\ UNCHANGED <<db, writer, tx, rd, acks, gate, starts, proc>>

\* Exit, were graceful_shutdown replaced by shutdown: serve returns at once,
\* whatever connections are open.
ExitAtOnce ==
  /\ proc.phase \in {"draining", "expired"}
  /\ proc' = [proc EXCEPT !.phase = "stopped"]
  /\ UNCHANGED <<db, writer, tx, req, rd, acks, gate, starts>>

\* serve returns once no connection is left; main returns and the process
\* exits.
Exit ==
  /\ proc.phase \in {"draining", "expired"}
  /\ Connected = {}
  /\ proc' = [proc EXCEPT !.phase = "stopped"]
  /\ UNCHANGED <<db, writer, tx, req, rd, acks, gate, starts>>

\* The steps the handler of the request in slot r takes on its own, from
\* the extractor to the response.
Handle(r) ==
  \/ Extract(r)
  \/ Validate(r)
  \/ OpenConnection(r)
  \/ InsertCheckin(r)
  \/ UpsertLaptop(r)
  \/ Commit(r)
  \/ Finish(r)

\* The server from its start to its exit, on the plain and on the TLS path,
\* under check-in traffic.
NextStop ==
  \/ \E cfg \in {ConfigDefault, ConfigTls} : main(NoArgs, NoEnv, cfg)
  \/ \E r \in Reqs : Receive(r, Bodies[9])
  \/ \E r \in Reqs : Handle(r)
  \/ \E sig \in {"Ctrl+C", "SIGTERM"} : shutdown_signal(sig)
  \/ Tick
  \/ Expire
  \/ \E r \in Reqs : ForceClose(r)
  \/ Exit

\* Time passes, the runtime keeps polling the tasks it holds, and a handler
\* is straight-line code whose storage calls return.
SpecStop ==
  /\ InitMain /\ [][NextStop]_vars
  /\ WF_vars(Tick) /\ WF_vars(Expire) /\ WF_vars(Exit)
  /\ \A r \in Reqs : WF_vars(ForceClose(r)) /\ WF_vars(Handle(r))

\* ------------------------------------------- field texts (models.rs)

\* The longest field text enumerated character by character.
MaxFieldLen == 2

\* The most drives of a list in which one entry is varied.
MaxDriveList == 2

\* The characters field texts are enumerated over: a letter, the space, and
\* characters the rule excludes (a newline, NUL, DEL, a non-ASCII letter).
FieldChars == {"a", " ", "LF", "NUL", "DEL", "U+00E9"}

\* The texts clients send in a field limited to max characters: every text
\* of up to MaxFieldLen characters, and texts at and over the limit.
FieldTexts(max) ==
  UNION {[1..n -> FieldChars] : n \in 0..MaxFieldLen}
  \cup {[i \in 1..n |-> "a"] : n \in {max, max + 1}}
  \cup {[i \in 1..max |-> IF i = max THEN "LF" ELSE "a"]}

\* A drive entry valid in every field.
GoodDrive ==
  [model |-> JString(<<"W", "D", " ", "B", "l", "u", "e">>),
   serial_number |-> JString(<<"W", "D", "-", "1">>),
   device_id |-> JString(<<"d", "i", "s", "k", "0">>)]

\* The drive entries clients send: one field varied over the texts (the
\* serial number also null or missing), and entries with two or three
\* offending fields.
Drives ==
  {[GoodDrive EXCEPT !.model = JString(t)] : t \in FieldTexts(DriveFieldMax)}
  \cup {[GoodDrive EXCEPT !.serial_number = JString(t)] : t \in FieldTexts(DriveFieldMax)}
  \cup {[GoodDrive EXCEPT !.serial_number = v] : v \in {JNull, JAbsent}}
  \cup {[GoodDrive EXCEPT !.device_id = JString(t)] : t \in FieldTexts(DriveFieldMax)}
  \cup {[GoodDrive EXCEPT !.model = JString(<<>>), !.device_id = JString(<<"LF">>)],
        [model |-> JString(<<"DEL">>), serial_number |-> JString(<<"U+00E9">>),
         device_id |-> JString(<<>>)]}

\* The drive lists clients send: lists of up to MaxDriveList entries, one
\* of them varied; and lists at and over the limit on the number of drives.
DriveLists ==
  {JArray([i \in 1..n |-> IF i = k THEN d ELSE GoodDrive]) :
      n \in 1..MaxDriveList, k \in 1..MaxDriveList, d \in Drives}
  \cup {JArray([i \in 1..n |-> GoodDrive]) : n \in {0, DrivesMax, DrivesMax + 1}}
  \cup {JArray([i \in 1..n |->
                  IF i = n
                  THEN [GoodDrive EXCEPT !.model = JString(<<>>)]
                  ELSE GoodDrive]) : n \in {DrivesMax, DrivesMax + 1}}

\* The check-ins clients send: valid in every field but, perhaps, the
\* drives; or the serial; or the logged-in user; or several fields at once.
FieldBodies ==
  {Body(TRUE, HostV1, Ip1, JNull, SN001, ds, Ts10Z) : ds \in DriveLists}
  \cup {Body(TRUE, HostV1, Ip1, Bob, JString(s), NoDrives, Ts10Z) :
          s \in FieldTexts(SerialMax)}
  \cup {Body(TRUE, HostV1, Ip1, JString(u), SN001, NoDrives, Ts10Z) :
          u \in FieldTexts(UserMax)}
  \cup {Body(TRUE, HostV1, Ip1, u, SN001, NoDrives, Ts10Z) : u \in {JNull, JAbsent}}
  \cup {Body(TRUE, h, ip, u, s, JArray(<<d>>), ts) :
          h \in {HostV1, JString(<<"_", "a">>)},
          ip \in {Ip1, JString(<<"1", ".", "2">>)},
          u \in {JNull, JString(<<"b", "LF">>)},
          s \in {SN001, JString(<<>>)},
          d \in {GoodDrive,
                 [GoodDrive EXCEPT !.model = JString(<<>>),
                                   !.device_id = JString(<<"LF">>)]},
          ts \in {Ts10Z, JString(<<"n", "o", "w">>)}}

\* The check-in route up to validation, under check-ins of every field text.
NextField ==
  \/ \E b \in FieldBodies : Receive(1, b)
  \/ Extract(1)
  \/ Validate(1)
  \/ Finish(1)

SpecField == Init /\ [][NextField]_vars

\* ------------------------------------------- debug mode (handlers.rs)

\* The bodies sent while debug mode is compared: a rejected one and a
\* check-in that is stored.
DebugBodies == {4, 9}

\* The server started with or without --debug, then check-ins and page
\* views.
NextDebug ==
  \/ \E args \in ArgsSet : main(args, NoEnv, ConfigDefault)
  \/ Checkin(1, DebugBodies)
  \/ ReadNext

SpecDebug == InitMain /\ [][NextDebug]_vars

\* ----------------------------------------------------------------- claims

\* The checkins row an accepted check-in leaves, the i-th accepted.
CheckinRowOf(i, a) ==
  [id |-> i,
   laptop_serial |-> a.checkin.laptop_serial,
   hostname |-> a.checkin.hostname,
   ip_address |-> a.checkin.ip_address,
   logged_in_user |-> a.checkin.logged_in_user,
   timestamp_utc |-> a.checkin.timestamp_utc,
   drives_json |-> a.drives_json]

\* The laptops row an accepted check-in leaves.
LaptopRowOf(a) ==
  [laptop_serial |-> a.checkin.laptop_serial,
   hostname |-> a.checkin.hostname,
   ip_address |-> a.checkin.ip_address,
   logged_in_user |-> a.checkin.logged_in_user,
   last_seen_utc |-> a.checkin.timestamp_utc,
   drives_json |-> a.drives_json]

LaptopSerials(d) == {d.laptops[i].laptop_serial : i \in DOMAIN d.laptops}

CheckinSerials(d) == {d.checkins[i].laptop_serial : i \in DOMAIN d.checkins}

\* C1: every check-in answered 200 has committed exactly one checkins row
\* and the laptops row of its serial, and nothing else is in the committed
\* store: the checkins rows are, one for one and in order, the accepted
\* check-ins, a serial has a laptops row exactly when it has a checkins row,
\* and a request holds a 200 only once its rows are committed.
C1_AcceptedCheckinWritesBoth ==
  /\ Len(db.checkins) = Len(acks)
  /\ \A i \in DOMAIN acks : db.checkins[i] = CheckinRowOf(i, acks[i])
  /\ LaptopSerials(db) = CheckinSerials(db)
  /\ \A r \in Reqs :
        req[r].response.status = 200 =>
          /\ req[r].response = Ok
          /\ \E i \in DOMAIN db.checkins :
                /\ db.checkins[i] = CheckinRowOf(i, [checkin |-> req[r].payload,
                                                     drives_json |-> req[r].drives_json])
                /\ req[r].payload.laptop_serial \in LaptopSerials(db)

\* C1 witness: a request holds its 200 and the store holds its two rows.
C1_Witness ==
  \E r \in Reqs :
     /\ req[r].pc = "done" /\ req[r].response = Ok
     /\ Len(db.checkins) >= 1 /\ Len(db.laptops) >= 1

\* C2: a check-in that fails at the audit insert, the upsert or the commit
\* is answered with the one generic 500, and the committed store is then
\* what it was before the transaction wrote anything; the transaction and
\* its lock are gone.
C2_FailureRollsBack ==
  [][\A r \in Reqs :
       (/\ req[r].pc \in {"insert", "upsert", "commit"}
        /\ req'[r].pc = "done"
        /\ req'[r].response # Ok)
       => /\ req'[r].response = Response(500, "Internal server error")
          /\ db' = (IF tx[r].active THEN tx[r].base ELSE db)
          /\ db' = db
          /\ ~tx'[r].active
          /\ writer' # r]_vars

\* C2 witness: a check-in failed after its audit insert and before its
\* upsert, with rows of an earlier check-in in the store.
C2_Witness ==
  \E r \in Reqs :
     /\ req[r].pc = "done" /\ req[r].step = "upsert"
     /\ req[r].response.status = 500
     /\ Len(db.checkins) = 1 /\ Len(acks) = 1

\* The rows of a table whose serial is s.
RowsOf(rows, s) == {i \in DOMAIN rows : rows[i].laptop_serial = s}

\* The accepted check-ins of serial s, as indexes of acks.
AcksOf(s) == {i \in DOMAIN acks : acks[i].checkin.laptop_serial = s}

\* The last of a non-empty set of indexes.
Last(idx) == CHOOSE i \in idx : \A j \in idx : j <= i

\* C3: a GET /device/:serial answered 200 shows a laptop row and a history
\* taken from one committed state of the store: the history holds the
\* audit rows of the serial that were committed when the laptop row was
\* read, and no later one.
C3_DetailShowsOneState ==
  (rd.pc = "done" /\ rd.route = "/device" /\ rd.response = Ok)
  => Len(rd.history) =
       Cardinality({i \in RowsOf(db.checkins, rd.serial) :
                      db.checkins[i].id <= rd.seen})

\* C4: concurrent check-ins are applied one whole transaction at a time: at
\* most one transaction has uncommitted writes, it holds the write lock,
\* and what it wrote is its own audit row (and then its own upsert) on top
\* of the committed store; and the laptops row of a serial is, field for
\* field, the row of the check-in of that serial committed last.
C4_WholeAndLastCommitWins ==
  /\ \A r \in Reqs :
        /\ tx[r].active <=> (writer = r)
        /\ tx[r].active <=> (req[r].pc \in {"upsert", "commit"})
        /\ tx[r].active =>
             LET ins == insert_checkin(db, req[r].payload, req[r].drives_json)
             IN  /\ tx[r].base = db
                 /\ ins.checkins = tx[r].work.checkins
                 /\ req[r].pc = "upsert" => tx[r].work.laptops = db.laptops
                 /\ req[r].pc = "commit" =>
                      \E i \in DOMAIN tx[r].work.laptops :
                         tx[r].work.laptops[i] =
                           LaptopRowOf([checkin |-> req[r].payload,
                                        drives_json |-> req[r].drives_json])
  /\ \A i \in DOMAIN db.laptops :
        LET mine == AcksOf(db.laptops[i].laptop_serial)
        IN  mine # {} /\ db.laptops[i] = LaptopRowOf(acks[Last(mine)])

\* C4 witness: two check-ins of one serial with different values are in
\* the server together, both committed and neither answered yet, and the
\* laptops row is that of the one that committed second.
C4_Witness ==
  \E r, q \in Reqs :
     /\ r # q
     /\ req[r].pc = "done" /\ req[r].response = Ok
     /\ req[q].pc = "done" /\ req[q].response = Ok
     /\ req[r].payload.laptop_serial = req[q].payload.laptop_serial
     /\ req[r].payload.hostname # req[q].payload.hostname
     /\ Len(acks) = 2 /\ acks[2].checkin = req[q].payload
     /\ \E k \in DOMAIN db.laptops : db.laptops[k] = LaptopRowOf(acks[2])

\* C5: the commit of a check-in leaves the laptops row of its serial with
\* the hostname, IP, user, last_seen and drives of that check-in, whatever
\* the timestamp the row held before.
C5_LastWriteWinsByArrival ==
  [][\A r \in Reqs :
       (req[r].pc = "commit" /\ req'[r].response = Ok)
       => LET mine == RowsOf(db'.laptops, req[r].payload.laptop_serial)
          IN  /\ mine # {}
              /\ \A i \in mine :
                    /\ db'.laptops[i].hostname = req[r].payload.hostname
                    /\ db'.laptops[i].ip_address = req[r].payload.ip_address
                    /\ db'.laptops[i].logged_in_user = req[r].payload.logged_in_user
                    /\ db'.laptops[i].last_seen_utc = req[r].payload.timestamp_utc
                    /\ db'.laptops[i].drives_json = req[r].drives_json]_vars

\* C5 witness: the laptops row of a serial holds the check-in accepted
\* last, whose timestamp denotes an earlier instant, and sorts before as
\* text, than that of the check-in accepted before it.
C5_Witness ==
  \E i, j \in DOMAIN acks :
     /\ i < j /\ j = Last(AcksOf(acks[i].checkin.laptop_serial))
     /\ TextLess(acks[j].checkin.timestamp_utc, acks[i].checkin.timestamp_utc)
     /\ ~InstantLeq(Instant(acks[i].checkin.timestamp_utc),
                    Instant(acks[j].checkin.timestamp_utc))
     /\ \E k \in DOMAIN db.laptops : db.laptops[k] = LaptopRowOf(acks[j])

\* C6: a serial with k accepted check-ins has k checkins rows and, when
\* k > 0, exactly one laptops row.
C6_OneLaptopRowManyCheckinRows ==
  \A s \in Serials \cup LaptopSerials(db) \cup CheckinSerials(db) :
     LET k == Cardinality(AcksOf(s))
     IN  /\ Cardinality(RowsOf(db.checkins, s)) = k
         /\ Cardinality(RowsOf(db.laptops, s)) = (IF k > 0 THEN 1 ELSE 0)

\* C6 witness: the same payload was accepted twice: one laptops row, two
\* checkins rows.
C6_Witness ==
  \E i, j \in DOMAIN acks :
     /\ i < j /\ acks[i].checkin = acks[j].checkin
     /\ Cardinality(RowsOf(db.laptops, acks[i].checkin.laptop_serial)) = 1
     /\ Cardinality(RowsOf(db.checkins, acks[i].checkin.laptop_serial)) = 2

\* The request in slot r got through the Json extractor.
Parsed(r) ==
  \/ req[r].pc \in {"validating", "open", "insert", "upsert", "commit"}
  \/ req[r].pc = "done" /\ req[r].step # "received"

\* C7: a check-in that parses and violates a validation rule never gets
\* past validation: it is answered 400 with the generic message, the store
\* was never opened for it and it has no transaction; and every row of
\* either table is the row of an accepted check-in that violates no rule.
C7_InvalidNeverReachesStore ==
  /\ \A r \in Reqs :
        (Parsed(r) /\ Violations(req[r].payload) # {})
        => /\ req[r].pc \in {"validating", "done"}
           /\ ~req[r].opened /\ ~tx[r].active /\ writer # r
           /\ req[r].pc = "done" =>
                req[r].response = Response(400, "Invalid input data")
  /\ \A i \in DOMAIN db.checkins :
        /\ i \in DOMAIN acks
        /\ db.checkins[i] = CheckinRowOf(i, acks[i])
        /\ Violations(acks[i].checkin) = {}
  /\ \A i \in DOMAIN db.laptops :
        \E j \in DOMAIN acks :
           db.laptops[i] = LaptopRowOf(acks[j]) /\ Violations(acks[j].checkin) = {}

\* C7 witness: a check-in whose hostname holds a space was answered 400
\* while the store holds the rows of an earlier check-in, and only those.
C7_Witness ==
  \E r \in Reqs :
     /\ req[r].pc = "done" /\ req[r].response.status = 400
     /\ \E i \in DOMAIN req[r].payload.hostname : req[r].payload.hostname[i] = " "
     /\ ~req[r].opened
     /\ Len(db.checkins) = 1 /\ Len(db.laptops) = 1 /\ Len(acks) = 1

\* The keys of a check-in document that must hold a string.
RequiredStrings == {"hostname", "ip_address", "laptop_serial", "timestamp_utc"}

\* C8: a body that is not JSON is answered 400 and a JSON body that lacks
\* a required field or has a mistyped one is answered 422, neither with
\* the response of a validation failure, and for neither did the handler
\* body run: validation was not entered, the store not opened, no
\* transaction begun.
C8_MalformedRejectedBeforeHandler ==
  \A r \in Reqs :
     req[r].pc \notin {"idle", "received"}
     => LET b == req[r].body
            untouched == /\ req[r].pc = "done"
                         /\ ~req[r].entered /\ ~req[r].opened
                         /\ ~tx[r].active /\ writer # r
                         /\ req[r].response # into_response(ValidationFailed({}))
        IN  /\ ~b.wellFormed => untouched /\ req[r].response.status = 400
            /\ (/\ b.wellFormed
                /\ \/ \E f \in RequiredStrings : b.doc[f].kind # "string"
                   \/ b.doc.drives.kind # "array")
               => untouched /\ req[r].response.status = 422

\* C8 witness: a body without laptop_serial was answered 422 while the
\* store holds the rows of an earlier check-in, and only those.
C8_Witness ==
  \E r \in Reqs :
     /\ req[r].pc = "done" /\ req[r].response.status = 422
     /\ req[r].body.wellFormed
     /\ req[r].body.doc.laptop_serial.kind = "absent"
     /\ ~req[r].entered
     /\ Len(db.checkins) = 1 /\ Len(acks) = 1

\* C9: the history a GET /device/:serial shows is ordered by the instants
\* its timestamps denote, most recent first.
C9_HistoryMostRecentFirst ==
  (rd.pc = "done" /\ rd.route = "/device" /\ rd.response = Ok)
  => \A i, j \in DOMAIN rd.history :
        i < j => InstantLeq(Instant(rd.history[j].timestamp_utc),
                            Instant(rd.history[i].timestamp_utc))

\* C10: the list of all machines holds every laptops row exactly once,
\* ordered by the instants their last-seen timestamps denote, most recent
\* first.
C10_AllLaptopsMostRecentFirst ==
  [][(rd.pc = "all" /\ rd'.pc = "done" /\ rd'.response = Ok)
     => /\ Len(rd'.rows) = Len(db.laptops)
        /\ \A k \in DOMAIN db.laptops :
              Cardinality({i \in DOMAIN rd'.rows : rd'.rows[i] = db.laptops[k]}) = 1
        /\ \A i, j \in DOMAIN rd'.rows :
              i < j => InstantLeq(Instant(rd'.rows[j].last_seen_utc),
                                  Instant(rd'.rows[i].last_seen_utc))]_vars

\* C11: looking a serial up gives its row when the laptops table has one
\* and None otherwise, never a stand-in record; GET /device/:serial, unless
\* the store fails (500), answers 404 exactly when the table has no row of
\* the serial, and goes on to answer 200 with that row when it has one.
C11_FoundOrNotFound ==
  [][/\ (rd.pc = "laptop" /\ rd'.pc # "laptop")
        => LET present == rd.serial \in LaptopSerials(db)
               got == get_laptop_by_serial(db, rd.serial)
           IN  /\ got.found <=> present
               /\ got.found => /\ Len(got.rows) = 1
                               /\ got.rows[1].laptop_serial = rd.serial
                               /\ \E i \in DOMAIN db.laptops :
                                     db.laptops[i] = got.rows[1]
               /\ rd'.response.status # 500
                  => /\ (rd'.response.status = 404) <=> ~present
                     /\ present => rd'.pc = "history" /\ rd'.rows = got.rows
     /\ (rd.pc = "history" /\ rd'.pc = "done" /\ rd'.response.status # 500)
        => rd'.response = Ok /\ rd'.rows = rd.rows]_vars

\* C11 witness: a GET /device/:serial was answered 404 for a serial the
\* laptops table does not hold, while it holds the row of another serial.
C11_Witness ==
  /\ rd.pc = "done" /\ rd.route = "/device" /\ rd.response.status = 404
  /\ rd.serial \notin LaptopSerials(db)
  /\ db.laptops # <<>>

\* The four columns the history read selects from a checkins row.
HistoryColumns(row) ==
  [hostname |-> row.hostname, ip_address |-> row.ip_address,
   logged_in_user |-> row.logged_in_user, timestamp_utc |-> row.timestamp_utc]

\* C12: the history read for a serial returns the audit rows of that serial,
\* each once, and no row of another serial; for a serial without audit rows
\* it returns the empty list.
C12_HistoryOfThatSerialOnly ==
  \A s \in Serials :
     LET mine == RowsOf(db.checkins, s)
         reads == get_checkins_by_serial(db, s)
     IN  /\ reads # {}
         /\ mine = {} => reads = {<<>>}
         /\ \A h \in reads :
               /\ Len(h) = Cardinality(mine)
               /\ \A k \in DOMAIN h :
                     Cardinality({i \in DOMAIN h : h[i] = h[k]})
                       = Cardinality({i \in mine :
                                        HistoryColumns(db.checkins[i]) = h[k]})

\* C12 witness: the store holds audit rows of two serials, and a page of
\* one of them was answered with the one row of its serial.
C12_Witness ==
  /\ rd.pc = "done" /\ rd.route = "/device" /\ rd.response = Ok
  /\ Len(rd.history) = 1
  /\ Cardinality(CheckinSerials(db)) = 2

\* C13: an accepted check-in stores its drives as sent: every field of every
\* drive object of the body, the additional ones included, is present and
\* unchanged in the drives document of the audit row and of the laptops row
\* the check-in commits.
C13_DriveExtrasStoredVerbatim ==
  [][\A r \in Reqs :
        (req[r].pc = "commit" /\ req'[r].pc = "done" /\ req'[r].response = Ok)
        => LET sent == req[r].body.doc.drives.val
               audit == db'.checkins[Len(db'.checkins)].drives_json
               serial == req[r].payload.laptop_serial
               Verbatim(stored) ==
                 /\ Len(stored) = Len(sent)
                 /\ \A k \in DOMAIN sent :
                       \A f \in DOMAIN sent[k] :
                          f \in DOMAIN stored[k] /\ stored[k][f] = sent[k][f]
           IN  /\ Verbatim(audit)
               /\ \A i \in DOMAIN db'.laptops :
                     db'.laptops[i].laptop_serial = serial
                     => Verbatim(db'.laptops[i].drives_json)]_vars

\* C14: no error response carries internal error detail: on POST /checkin
\* the response to a failure is the same whatever the database error text
\* or the set of violated fields, and on GET / and GET /device/:serial the
\* body of a 500 holds no database error text.
C14_ErrorDetailNotEchoed ==
  /\ \A r \in Reqs :
        (req[r].pc = "done" /\ req[r].logged.kind # "")
        => /\ req[r].response.error = ""
           /\ \A e \in DbErrors \cup OpenErrors \cup WriteErrors :
                 req[r].logged.kind = "DatabaseError"
                 => req[r].response = into_response(DatabaseError(e))
           /\ \A fields \in SUBSET {"hostname", "ip_address"} :
                 req[r].logged.kind = "ValidationFailed"
                 => req[r].response = into_response(ValidationFailed(fields))
  /\ (rd.pc = "done" /\ rd.response.status >= 500)
     => rd.response.error = ""

\* C15: a POST /checkin whose body is larger than MAX_BODY_SIZE is answered
\* 413, and neither validation nor the store is reached for it: no row is
\* written and no connection opened.
C15_OversizedBodyRejected ==
  [][(gate.pc # "done" /\ gate'.pc = "done"
      /\ gate'.route = "/checkin" /\ gate'.size > MAX_BODY_SIZE)
     => /\ gate'.response.status = 413
        /\ ~gate'.validated /\ ~gate'.opened
        /\ db' = db]_vars

\* C16: of the requests an address has sent in a burst, the first
\* RATE_LIMIT_BURST that reached the limiter were admitted and every later
\* one was answered 429, whatever other addresses sent; a request answered
\* 429 reached neither validation nor the store.
C16_BurstAdmittedThenLimited ==
  /\ \A a \in Addrs :
        /\ gate.admitted[a] = IF gate.arrived[a] <= RATE_LIMIT_BURST
                              THEN gate.arrived[a] ELSE RATE_LIMIT_BURST
        /\ gate.limited[a] = gate.arrived[a] - gate.admitted[a]
  /\ (gate.pc = "done" /\ gate.response.status = 429)
     => ~gate.validated /\ ~gate.opened

\* C17: a GET /health or GET /ready is answered 200 however many requests
\* its address has made, and takes no token from the address's bucket.
C17_ProbesExempt ==
  [][(gate.pc = "governor" /\ gate'.pc = "done"
      /\ gate.route \in {"/health", "/ready"} /\ gate.size = 0)
     => /\ gate'.response = Ok
        /\ gate'.tokens = gate.tokens]_vars

\* C18: check-in events are append-only: whatever the server does, a check-in
\* accepted, rejected or failed, or a read, every committed audit row stays
\* where it is with all its columns, and the audit table never shrinks.
C18_CheckinsAppendOnly ==
  [][/\ Len(db'.checkins) >= Len(db.checkins)
     /\ \A i \in DOMAIN db.checkins : db'.checkins[i] = db.checkins[i]]_vars

\* C18 witness: a second check-in of a serial was committed and a page of
\* that serial read, and the audit row of the first is as it was committed.
C18_Witness ==
  /\ Len(db.checkins) = 2 /\ Len(acks) = 2
  /\ db.checkins[1].laptop_serial = db.checkins[2].laptop_serial
  /\ db.checkins[1].hostname # db.checkins[2].hostname
  /\ db.checkins[1] = CheckinRowOf(1, acks[1])
  /\ rd.pc = "done" /\ rd.route = "/device" /\ Len(rd.history) = 2

\* C19: store initialization is idempotent: on a fresh path it creates both
\* tables and both checkins indexes and turns write-ahead journaling on, so
\* the store the server works on always has them; run again on the store as
\* it is, it changes nothing: every laptops and checkins row stays.
C19_OpenAndInitIdempotent ==
  LET fresh == open_and_init(NoFile)
      again == open_and_init(db)
  IN  /\ fresh.tables = {"laptops", "checkins"}
      /\ fresh.indexes = {"idx_checkins_laptop_serial", "idx_checkins_timestamp"}
      /\ fresh.journal_mode = "wal"
      /\ fresh.laptops = <<>> /\ fresh.checkins = <<>>
      /\ open_and_init(fresh) = fresh
      /\ db.tables = fresh.tables /\ db.indexes = fresh.indexes
      /\ db.journal_mode = "wal"
      /\ again.laptops = db.laptops /\ again.checkins = db.checkins
      /\ again = db

\* C19 witness: the process was started a second time on a store that held
\* the rows of an accepted check-in, and the rows are there.
C19_Witness ==
  /\ starts = 2
  /\ Len(acks) = 1
  /\ db.checkins = <<CheckinRowOf(1, acks[1])>>
  /\ db.laptops = <<LaptopRowOf(acks[1])>>

\* The ASCII letters and digits, one by one.
Alphanumerics ==
  {"a", "b", "c", "d", "e", "f", "g", "h", "i", "j", "k", "l", "m",
   "n", "o", "p", "q", "r", "s", "t", "u", "v", "w", "x", "y", "z",
   "A", "B", "C", "D", "E", "F", "G", "H", "I", "J", "K", "L", "M",
   "N", "O", "P", "Q", "R", "S", "T", "U", "V", "W", "X", "Y", "Z",
   "0", "1", "2", "3", "4", "5", "6", "7", "8", "9"}

\* The hostname rule as the specification words it.
HostnameRule(h) ==
  /\ Len(h) >= 1 /\ Len(h) <= 63
  /\ \A i \in DOMAIN h : h[i] \in Alphanumerics \cup {"-", "_"}
  /\ h[1] \in Alphanumerics
  /\ h[Len(h)] \in Alphanumerics

\* C20: validation accepts a hostname exactly when it has 1 to 63
\* characters, each an ASCII letter, a digit, '-' or '_', the first and the
\* last a letter or a digit: a validated check-in has hostname among its
\* violations exactly when its hostname breaks the rule, and goes on to the
\* store only if it keeps it; WIN_DESKTOP-01 is accepted, _INVALID,
\* INVALID_, HOST@NAME and the empty hostname are rejected.
C20_HostnameRule ==
  /\ \A r \in Reqs :
        (Parsed(r) /\ req[r].pc \in {"open", "done"})
        => LET h == req[r].payload.hostname
           IN  /\ ("hostname" \in Violations(req[r].payload)) <=> ~HostnameRule(h)
               /\ req[r].pc = "open" => HostnameRule(h)
               /\ ~HostnameRule(h) => req[r].response.status = 400
  /\ validate(CheckInOf(HostBody(WinDesktop01).doc))
  /\ \A h \in {UnderscoreInvalid, InvalidUnderscore, HostAtName, <<>>} :
        ~validate(CheckInOf(HostBody(h).doc))

\* C20 witness: INVALID_ was sent as the hostname of a check-in valid in
\* every other field and answered 400.
C20_Witness ==
  /\ req[1].pc = "done"
  /\ req[1].payload.hostname = InvalidUnderscore
  /\ Violations(req[1].payload) = {"hostname"}
  /\ req[1].response = into_response(ValidationFailed({"hostname"}))

\* The characters from the space to the tilde, one by one.
Printable == {PrintableAscii[i] : i \in DOMAIN PrintableAscii}

\* The drive rule as the specification words it.
DriveRule(d) ==
  /\ Len(d.model) >= 1 /\ Len(d.model) <= 256
  /\ \A i \in DOMAIN d.model : d.model[i] \in Printable
  /\ Len(d.device_id) >= 1 /\ Len(d.device_id) <= 256
  /\ \A i \in DOMAIN d.device_id : d.device_id[i] \in Printable
  /\ \/ ~d.serial_number.some
     \/ /\ Len(d.serial_number.val) <= 256
        /\ \A i \in DOMAIN d.serial_number.val : d.serial_number.val[i] \in Printable

\* C21: a check-in is accepted only if it has at most 32 drives, each with
\* a model and a device identifier of 1 to 256 printable ASCII characters
\* and a serial number absent or of 0 to 256 printable ASCII characters: a
\* validated check-in has drives among its violations exactly when its
\* list is too long or some entry breaks the rule, it goes on to the store
\* only if every entry keeps the rule, and one offending entry has the
\* whole check-in answered 400.
C21_DriveRule ==
  \A r \in Reqs :
     (Parsed(r) /\ req[r].pc \in {"open", "done"})
     => LET ds == req[r].payload.drives
            ok == Len(ds) <= 32 /\ \A i \in DOMAIN ds : DriveRule(ds[i])
        IN  /\ ("drives" \in Violations(req[r].payload)) <=> ~ok
            /\ req[r].pc = "open" => ok
            /\ ~ok => /\ req[r].response = into_response(ValidationFailed({}))
                      /\ req[r].response.status = 400
                      /\ ~req[r].opened

\* C21 witness: a check-in of two drives, the first valid and the second
\* with a newline in its serial number and nothing else wrong, was
\* answered 400.
C21_Witness ==
  /\ req[1].pc = "done"
  /\ Len(req[1].payload.drives) = 2
  /\ DriveViolations(req[1].payload.drives[1]) = {}
  /\ req[1].payload.drives[2].serial_number = Some(<<"LF">>)
  /\ DriveViolations(req[1].payload.drives[2]) = {"serial_number"}
  /\ Violations(req[1].payload) = {"drives"}
  /\ req[1].response.status = 400

\* The serial rule as the specification words it.
SerialRule(s) ==
  /\ Len(s) >= 1 /\ Len(s) <= 128
  /\ \A i \in DOMAIN s : s[i] \in Printable

\* The logged-in user rule as the specification words it.
UserRule(u) ==
  \/ ~u.some
  \/ /\ Len(u.val) <= 512
     /\ \A i \in DOMAIN u.val : u.val[i] \in Printable

\* C22: the serial is accepted exactly when it has 1 to 128 characters, all
\* ASCII and none a control character; the logged-in user may be absent and
\* is otherwise accepted exactly when it has 0 to 512 such characters: a
\* validated check-in has the field among its violations exactly when it
\* breaks its rule, goes on to the store only if both keep theirs, and is
\* answered 400 otherwise; a newline, NUL, DEL or a non-ASCII character
\* anywhere in either field rejects the check-in.
C22_SerialAndUserRule ==
  \A r \in Reqs :
     (Parsed(r) /\ req[r].pc \in {"open", "done"})
     => LET p == req[r].payload
            s == p.laptop_serial
            u == p.logged_in_user
        IN  /\ ("laptop_serial" \in Violations(p)) <=> ~SerialRule(s)
            /\ ("logged_in_user" \in Violations(p)) <=> ~UserRule(u)
            /\ req[r].pc = "open" => SerialRule(s) /\ UserRule(u)
            /\ ~(SerialRule(s) /\ UserRule(u))
               => /\ req[r].response = into_response(ValidationFailed({}))
                  /\ req[r].response.status = 400
                  /\ ~req[r].opened
            /\ (\E i \in DOMAIN s : s[i] \in {"LF", "NUL", "DEL", "U+00E9"})
               => req[r].response.status = 400
            /\ (u.some /\ \E i \in DOMAIN u.val :
                             u.val[i] \in {"LF", "NUL", "DEL", "U+00E9"})
               => req[r].response.status = 400

\* C22 witness: a check-in whose logged-in user holds a newline after a
\* letter, and nothing else wrong, was answered 400.
C22_Witness ==
  /\ req[1].pc = "done"
  /\ req[1].payload.logged_in_user = Some(<<"a", "LF">>)
  /\ Violations(req[1].payload) = {"logged_in_user"}
  /\ req[1].response.status = 400
  /\ ~req[1].opened

\* Where a check-in request is in the state machine of the specification.
Phase(q) ==
  CASE q.pc = "idle" -> "none"
    [] q.pc = "received" -> "received"
    [] q.pc = "validating" -> "validating"
    [] q.pc \in {"open", "insert", "upsert", "commit"} -> "persisting"
    [] q.pc = "done" /\ q.response.status = 200 -> "committed"
    [] q.pc = "done" /\ q.response.status \in {400, 422} -> "rejected"
    [] OTHER -> "failed"

Terminal == {"rejected", "committed", "failed"}

\* The transitions of the state machine; a body the extractor cannot parse
\* is rejected before validate is called, and a finished request leaves
\* its slot.
LifecycleEdges ==
  {<<"none", "received">>, <<"received", "validating">>,
   <<"received", "rejected">>, <<"validating", "rejected">>,
   <<"validating", "persisting">>, <<"persisting", "committed">>,
   <<"persisting", "failed">>}
  \cup {<<t, "none">> : t \in Terminal}

\* C23: every check-in request goes received, validating, then rejected or
\* persisting, then committed or failed: its state changes along these
\* transitions only; persisting is entered from validating, by a check-in
\* that violates no rule; committed is entered from persisting, by the
\* commit, with the check-in stored; a request in a terminal state changes
\* no more and holds no transaction, and when it leaves its slot nothing is
\* kept of it and the store is left alone.
C23_RequestLifecycle ==
  [][\A r \in Reqs :
          LET a == Phase(req[r])
              b == Phase(req'[r])
          IN  /\ a # b => <<a, b>> \in LifecycleEdges
              /\ (b = "persisting" /\ a # b)
                 => a = "validating" /\ Violations(req[r].payload) = {}
              /\ (b = "committed" /\ a # b)
                 => /\ req[r].pc = "commit"
                    /\ acks' = Append(acks, [checkin |-> req[r].payload,
                                             drives_json |-> req[r].drives_json])
              /\ (b \in {"rejected", "failed"} /\ a # b) => acks' = acks
              /\ b \in Terminal => ~tx'[r].active /\ writer' # r
              /\ a \in Terminal
                 => \/ req'[r] = req[r]
                    \/ req'[r] = Idle /\ db' = db /\ acks' = acks /\ tx' = tx
     ]_vars

\* C23 witness: of two check-ins in flight together one was committed and
\* the other failed at its commit, leaving the rows of the first only.
C23_Witness ==
  \E r, s \in Reqs :
     /\ Phase(req[r]) = "committed"
     /\ Phase(req[s]) = "failed" /\ req[s].step = "commit"
     /\ ~tx[s].active
     /\ Len(db.checkins) = 1 /\ Len(acks) = 1

\* C24: before every write the check-in handler ensures pragmas and schema:
\* a handler that has set up its connection writes to a store in WAL mode
\* that holds both tables, also when the file was removed since the server
\* started, and no check-in fails because a table is missing.
C24_SchemaEnsuredBeforeWrite ==
  \A r \in Reqs :
     /\ (req[r].opened /\ req[r].pc \in {"insert", "upsert", "commit"})
        => /\ db.journal_mode = "wal"
           /\ {"laptops", "checkins"} \subseteq db.tables
     /\ req[r].pc = "done"
        => req[r].logged.detail \cap
             {"no such table: checkins", "no such table: laptops"} = {}

\* The fields of a check-in, and of its drive entries, that break the rule
\* the specification words for them.
OffendingFields(p) ==
  {f \in {"hostname"} : ~HostnameRule(p.hostname)}
  \cup {f \in {"ip_address"} : ~validate_ip_address(p.ip_address)}
  \cup {f \in {"logged_in_user"} : ~UserRule(p.logged_in_user)}
  \cup {f \in {"laptop_serial"} : ~SerialRule(p.laptop_serial)}
  \cup {f \in {"drives"} :
          Len(p.drives) > 32 \/ \E i \in DOMAIN p.drives : ~DriveRule(p.drives[i])}
  \cup {f \in {"timestamp_utc"} : ~validate_timestamp(p.timestamp_utc)}

OffendingDriveFields(p) ==
  {<<i, f>> \in (DOMAIN p.drives) \X {"model", "serial_number", "device_id"} :
      ~DriveRule([model |-> IF f = "model" THEN p.drives[i].model ELSE <<"a">>,
                  serial_number |-> IF f = "serial_number"
                                    THEN p.drives[i].serial_number ELSE None,
                  device_id |-> IF f = "device_id"
                                THEN p.drives[i].device_id ELSE <<"a">>])}

\* C25: validation is not fail-fast: the one validation pass of a rejected
\* check-in reports every offending field of the check-in and every
\* offending field of every drive entry, while the response is the same
\* 400 with the generic message whatever was violated.
C25_EveryViolationReported ==
  \A r \in Reqs :
     (req[r].pc = "done" /\ req[r].logged.kind = "ValidationFailed")
     => /\ req[r].logged.detail = OffendingFields(req[r].payload)
        /\ req[r].logged.nested = OffendingDriveFields(req[r].payload)
        /\ req[r].response = Response(400, "Invalid input data")

\* C26: environment variables override the config file, debug included:
\* when INVENTORY_DEBUG is set the debug mode of the started server is the
\* value the variable gives, whatever debug is in the config file, and
\* INVENTORY_BIND and INVENTORY_DB_PATH, when set, are the bind address and
\* the store path whatever bind and db_path are in the file.
C26_EnvironmentOverridesConfig ==
  proc.phase \in {"serving", "failed"}
  => /\ (proc.env.INVENTORY_DEBUG.some /\ ~proc.args.debug)
        => (proc.state.debug_mode <=>
              proc.env.INVENTORY_DEBUG.val
                \in {<<"1">>, <<"t", "r", "u", "e">>, <<"T", "R", "U", "E">>})
     /\ proc.env.INVENTORY_BIND.some
        => proc.bind_addr = proc.env.INVENTORY_BIND.val
     /\ proc.env.INVENTORY_DB_PATH.some
        => proc.state.db_path = proc.env.INVENTORY_DB_PATH.val

\* C27: the read operations and the two GET handlers leave both tables
\* unchanged, on success and on every error path, and each read gives what
\* is committed when it is made: a step of a read request changes neither
\* the store nor any transaction; the list of GET / holds the laptops rows
\* of that moment, each once; the laptop of GET /device/:serial is the row
\* of that serial at that moment, or a 404 when there is none; and its
\* history holds the audit rows of the serial at that moment, each once.
C27_ReadsLeaveTablesUnchanged ==
  [][rd' # rd
     => /\ db' = db /\ tx' = tx /\ writer' = writer /\ acks' = acks
        /\ (rd.pc = "all" /\ rd'.response = Ok)
           => /\ Len(rd'.rows) = Len(db.laptops)
              /\ \A i \in DOMAIN db.laptops :
                    \E j \in DOMAIN rd'.rows : rd'.rows[j] = db.laptops[i]
        /\ (rd.pc = "laptop" /\ rd'.pc = "history")
           => /\ Len(rd'.rows) = 1
              /\ rd'.rows[1].laptop_serial = rd.serial
              /\ \E i \in DOMAIN db.laptops : rd'.rows[1] = db.laptops[i]
        /\ (rd.pc = "laptop" /\ rd'.response.status = 404)
           => rd.serial \notin LaptopSerials(db)
        /\ (rd.pc = "history" /\ rd'.response = Ok)
           => LET mine == RowsOf(db.checkins, rd.serial)
                  h == rd'.history
              IN  /\ Len(h) = Cardinality(mine)
                  /\ \A k \in DOMAIN h :
                        Cardinality({i \in DOMAIN h : h[i] = h[k]})
                          = Cardinality({i \in mine :
                                           HistoryColumns(db.checkins[i]) = h[k]})
    ]_vars

\* C27 witness: after two check-ins were committed, a GET / failed with an
\* error while the store holds the rows of both check-ins, and only those.
C27_Witness ==
  /\ rd.pc = "done" /\ rd.route = "/" /\ rd.response.status = 500
  /\ Len(acks) = 2 /\ Len(db.checkins) = 2
  /\ \A i \in DOMAIN db.checkins : db.checkins[i] = CheckinRowOf(i, acks[i])
  /\ \A i \in DOMAIN db.laptops :
        \E j \in DOMAIN acks : db.laptops[i] = LaptopRowOf(acks[j])

\* C28: after Ctrl+C or SIGTERM the server accepts no new connection,
\* requests in flight may finish within the grace period of 30 seconds,
\* after which their connections are shut, and the process then exits, on
\* the TLS as on the plain path: once the signal came no request is
\* received; while the grace period runs a request keeps its connection
\* until its response is written; connections are shut only when the 30
\* seconds have passed; the process exits only with no connection left;
\* and after the signal the process does exit.
C28_GracefulShutdown ==
  /\ [][/\ proc.phase # "serving"
           => \A r \in Reqs : req[r].pc = "idle" => req'[r].pc = "idle"
        /\ proc.phase = "draining"
           => /\ proc.elapsed <= 30
              /\ \A r \in Reqs :
                    (req[r].pc # "idle" /\ req'[r].pc = "idle")
                    => req[r].pc = "done"
        /\ proc'.phase = "expired" => proc.elapsed = 30 \/ proc.phase = "expired"
        /\ (proc.phase # "stopped" /\ proc'.phase = "stopped")
           => /\ proc.signal \in {"Ctrl+C", "SIGTERM"}
              /\ \A r \in Reqs : req[r].pc = "idle"
        /\ proc.phase = "stopped" => UNCHANGED vars
       ]_vars
  /\ (proc.phase = "draining") ~> (proc.phase = "stopped")

\* C28 witness: on the TLS path the server has exited after SIGTERM and 30
\* seconds of grace, having stored the check-in whose handler was running
\* when the grace period ended.
C28_Witness ==
  /\ proc.phase = "stopped" /\ proc.tls /\ proc.signal = "SIGTERM"
  /\ proc.elapsed = 30
  /\ Len(db.checkins) = 1



\* The audit row of serial s with the highest id.
LatestAudit(d, s) ==
  CHOOSE c \in {d.checkins[i] : i \in DOMAIN d.checkins} :
    /\ c.laptop_serial = s
    /\ \A i \in DOMAIN d.checkins :
         d.checkins[i].laptop_serial = s => d.checkins[i].id <= c.id

\* C29: in every committed state of the store reached from an empty
\* initialized store through check-in requests only, whatever their number,
\* interleaving and outcome, the serials in laptops are exactly the serials
\* in checkins, and each laptops row carries the hostname, IP address, user,
\* last_seen and drives document of that serial's audit row with the highest
\* id.
C29_LaptopsMirrorLatestAudit ==
  /\ LaptopSerials(db) = CheckinSerials(db)
  /\ \A i \in DOMAIN db.laptops :
       db.laptops[i].laptop_serial \in CheckinSerials(db) =>
         LET l == db.laptops[i]
             c == LatestAudit(db, l.laptop_serial)
         IN  /\ l.hostname = c.hostname
             /\ l.ip_address = c.ip_address
             /\ l.logged_in_user = c.logged_in_user
             /\ l.last_seen_utc = c.timestamp_utc
             /\ l.drives_json = c.drives_json

\* C29 witness: one serial has two audit rows that differ in their drives
\* document, a check-in has failed in between or after, and the serial's one
\* laptops row carries the document of the later audit row.
C29_Witness ==
  /\ \E i, j \in DOMAIN db.checkins :
       /\ i < j
       /\ db.checkins[i].laptop_serial = db.checkins[j].laptop_serial
       /\ db.checkins[i].drives_json # db.checkins[j].drives_json
       /\ \A k \in DOMAIN db.checkins :
            db.checkins[k].laptop_serial = db.checkins[j].laptop_serial
              => db.checkins[k].id <= db.checkins[j].id
       /\ \E n \in DOMAIN db.laptops :
            /\ db.laptops[n].laptop_serial = db.checkins[j].laptop_serial
            /\ db.laptops[n].drives_json = db.checkins[j].drives_json
  /\ \E r \in Reqs : req[r].pc = "done" /\ req[r].response.status = 500





\* A step of a handler at a place where it reads state.debug_mode.
AtDebugBlock ==
  \/ \E r \in Reqs : req[r].pc = "validating" /\ req'[r] # req[r]
  \/ rd.pc \in {"open", "debug"} /\ rd' # rd

\* C30: debug mode affects only console logging: whatever the requests, the
\* responses of POST /checkin and GET /device/{serial} and the contents of
\* both tables are the same with AppState.debug_mode true and false, also
\* when the extra query of device_detail's debug block fails.  Step by step:
\* while the server serves, debug_mode and the other settings stay as they
\* are; a step of a handler where it reads debug_mode changes the requests,
\* the responses and the store exactly as that step does with debug_mode
\* true and as it does with debug_mode false, whichever way the debug query
\* went; and every other step prints nothing.
C30_DebugAffectsOnlyConsole ==
  [][proc.phase = "serving"
     => /\ [proc' EXCEPT !.console = {}, !.debug_query = ""]
             = [proc EXCEPT !.console = {}, !.debug_query = ""]
        /\ IF AtDebugBlock
           THEN \A debug_mode \in BOOLEAN :
                  \/ \E r \in Reqs : ValidateIn(debug_mode, r)
                  \/ ReadOpenIn(debug_mode)
                  \/ \E query \in DebugQueries(debug_mode) :
                        DetailDebugIn(debug_mode, query)
           ELSE proc' = proc
    ]_vars

\* C30 witness: with debug mode on, a check-in was answered 200 and stored,
\* its lines printed, and a GET /device/{serial} whose debug query failed
\* was answered 200 with the laptop and its history.
C30_Witness ==
  /\ proc.phase = "serving" /\ proc.state.debug_mode
  /\ proc.debug_query = "failed"
  /\ "[DEBUG] Checkin received" \in proc.console
  /\ "[DEBUG] All laptops in DB" \notin proc.console
  /\ rd.pc = "done" /\ rd.route = "/device" /\ rd.response = Ok
  /\ Len(rd.rows) = 1 /\ Len(rd.history) = 1
  /\ Len(db.checkins) = 1 /\ Len(db.laptops) = 1



====
